---- MODULE Spec2Model ----
(***************************************************************************)
(* The signal-to-order pipeline of src/mt5_handler.py: the entry point     *)
(* execute_trade (the last definition of that name, the one main.py        *)
(* imports), the single-flight drain loop process_order_queue, the         *)
(* dispatcher execute_trade_internal, the deferred queue                   *)
(* (market_closed_signals and its file) and the sweep                      *)
(* process_queued_signals run by start_market_monitor.                     *)
(*                                                                         *)
(* Scheduling is asyncio's: code between two suspending awaits runs        *)
(* without interleaving.  `running` names the task that holds the event    *)
(* loop; it is 0 when every task is suspended or finished.  The only       *)
(* suspending awaits are asyncio.sleep(2) (retry), asyncio.sleep(10)       *)
(* (between batches) and asyncio.sleep(120) (between sweeps).              *)
(*                                                                         *)
(* The venue (MetaTrader5) is external: every answer it gives is an input  *)
(* drawn from a small set at the call.  The clock, the market hours and    *)
(* the venue's pending count change only while the event loop is idle.     *)
(*                                                                         *)
(* What the environment does in one behaviour (messages delivered, timer   *)
(* expiries, clock ticks) is bounded by `budget`, which Init draws from    *)
(* Scenarios.                                                              *)
(***************************************************************************)
EXTENDS Integers, Sequences, FiniteSets, TLC

\* ---------------------------------------------------------------- bounds
MaxSubmits == 2          \* calls of execute_trade when no backlog is swept
MaxWakes == 1            \* expiries of the sweep timer when no message arrives
MaxMonitorStarts == 1    \* calls of start_market_monitor after the one main() makes
MaxTime == 2             \* clock ticks
ExpiryTicks == 1         \* the 24 h lifetime of a deferred entry, in clock ticks
MixedSubmits == 1        \* calls of execute_trade while a backlog is swept
MixedWakes == 1          \* expiries of the sweep timer while messages arrive

\* ------------------------------------------------------- program constants
BatchSize == 250         \* process_order_queue: batch_size
MaxRetries == 3          \* max_retries of the placement loop
PendingLimit == 200      \* per-symbol pending-order limit of the direct path
CriticalThreshold == 190 \* CRITICAL classification of the venue-wide count
VenueCapacity == 200     \* venue-wide ceiling used for remaining capacity
DefaultSystemLimit == 4  \* system_limits.get(symbol, 4)
DefaultTotalLimit == 15  \* total_limits.get(symbol, 15)
PointUnits == 10         \* symbol_info.point, in price units
DEVIATION == 10          \* config.DEVIATION, in pips

None == <<>>
Some(v) == <<v>>

Min(a, b) == IF a <= b THEN a ELSE b

\* ----------------------------------------------------------------- inputs
Symbols == {"EURUSD"}

\* take-profit sequences of the intents (price units)
TpLists == {<<110>>, <<130, 120>>}

\* what parse_signal produces for "<symbol> BUY NOW ... TP.. SL 50"
NewSignal(id, symbol, tps) ==
  [id |-> id, symbol |-> symbol, direction |-> "BUY", is_limit |-> FALSE,
   entry |-> None, sl |-> 50, tp |-> tps, tp_count |-> Len(tps)]

\* mt5.symbol_info answers: None, or the fields the pipeline reads
SymbolInfos ==
  {None} \cup {Some([trade_mode_full |-> f, trade_stops_level |-> l]) :
                 f \in BOOLEAN, l \in {0, 2}}

\* mt5.symbol_info_tick answers
Ticks == {None, Some([bid |-> 0, ask |-> 0]), Some([bid |-> 99, ask |-> 100])}

\* mt5.order_send answers
SendResults == {"None", "REJECTED", "DONE", "RAISED"}

\* positions+orders of a symbol: all of them, and those whose comment holds 'Group'
CapacityAnswers ==
  {[total |-> 0, system |-> 0], [total |-> 19, system |-> 3],
   [total |-> 12, system |-> 8], [total |-> 12, system |-> 9]}

\* venue-wide pending-order counts (mt5.orders_get())
PendingLevels == {0, 200}

\* pending orders of one symbol in state PLACED, when the venue holds n in all
SymbolPendingLevels(n) == {p \in {0, 200} : p <= n}

VARIABLES
  now,                     \* time.time(), in ticks
  marketOpen,              \* what is_market_open(symbol) returns at this instant
  venuePending,            \* the venue-wide count of pending orders, mt5.orders_get()
  budget,                  \* what the environment may still do in this behaviour
  order_queue,             \* deque of signals
  queue_processing,        \* flag of process_order_queue
  market_closed_signals,   \* the in-memory deferred queue
  market_monitor_running,  \* flag of start_market_monitor
  queue_file,              \* contents of logs/market_queue.json
  tasks,                   \* the asyncio tasks created so far
  running,                 \* index of the task holding the event loop, 0 if none
  nextId,                  \* number of execute_trade calls so far, plus one
  execCount,               \* per intent: executions started by the sweep
  active_trades,           \* TradeManager.active_trades: symbol -> list of trades
  positions,               \* tickets of the venue's open positions
  price_current,           \* position.price_current at the venue
  added,                   \* groups handed to add_trades so far
  pushed,                  \* groups whose own closing leg has had modifies sent
  rejected,                \* tickets that have had a modify refused or failed
  last_cycle,              \* what the latest _check_trades did, if it was the last step
  call,                    \* the latest call of a pure function: name, arguments, result
  legs                     \* the order requests built so far, in the order they were built

env == <<now, marketOpen, venuePending, budget>>
flags == <<queue_processing, market_monitor_running>>
deferred == <<market_closed_signals, queue_file>>

handler == <<env, flags, deferred, order_queue, tasks, running, nextId, execCount>>
tracking == <<active_trades, positions, price_current, added, pushed, rejected,
              last_cycle>>

probe == <<call, legs>>

vars == <<handler, tracking, probe>>

\* ------------------------------------------------------------ pure helpers
\* Python's round(): nearest integer, ties to the even one; here of n/d, d > 0
RoundHalfEven(n, d) ==
  LET q == n \div d
      r == n % d
  IN  IF 2 * r < d THEN q
      ELSE IF 2 * r > d THEN q + 1
      ELSE IF q % 2 = 0 THEN q ELSE q + 1

Abs(x) == IF x < 0 THEN 0 - x ELSE x

\* "JPY" in symbol
IsJPY(symbol) ==
  symbol \in {"USDJPY", "EURJPY", "GBPJPY", "CHFJPY", "AUDJPY", "NZDJPY", "CADJPY"}

price_to_pips(price, current_price, point, symbol) ==
  IF IsJPY(symbol)
    THEN RoundHalfEven((price - current_price) * 100, point)
    ELSE RoundHalfEven(price - current_price, point)

\* Decimal(str(price)).quantize(Decimal(str(increment))): the price at the
\* increment's precision, ties to even
round_to_increment(price, increment) == RoundHalfEven(price, increment) * increment

\* 'BUY' in signal['direction']
HasBuy(direction) == direction \in {"BUY", "BUY LIMIT"}

\* a faulty validation: the sides are checked, the minimum distance is not
validate_sides_only(price, sl, tp, symbol_info, order_type) ==
  IF order_type \in {"ORDER_TYPE_BUY", "ORDER_TYPE_BUY_LIMIT"}
    THEN ~(sl >= price) /\ ~(tp <= price)
    ELSE ~(sl <= price) /\ ~(tp >= price)

validate_sl_tp_prices(price, sl, tp, symbol_info, order_type) ==
  LET min_distance == symbol_info.trade_stops_level * PointUnits
  IN  IF order_type \in {"ORDER_TYPE_BUY", "ORDER_TYPE_BUY_LIMIT"}
        THEN ~(sl >= price) /\ ~(tp <= price)
             /\ ~(Abs(sl - price) < min_distance \/ Abs(tp - price) < min_distance)
        ELSE IF order_type \in {"ORDER_TYPE_SELL", "ORDER_TYPE_SELL_LIMIT"}
          THEN ~(sl <= price) /\ ~(tp >= price)
               /\ ~(Abs(price - sl) < min_distance \/ Abs(price - tp) < min_distance)
          ELSE TRUE

\* index of the first element of seq equal to v, 0 if there is none
IndexOf(seq, v) ==
  IF \E j \in 1..Len(seq) : seq[j] = v
    THEN CHOOSE j \in 1..Len(seq) : seq[j] = v /\ \A h \in 1..(j - 1) : seq[h] # v
    ELSE 0

\* prepare_order_request: None, or the request sent to the venue.
\* symbol_info is validate_symbol's answer, tick the answer of the last of the
\* three symbol_info_tick tries.
prepare_order_request(signal, tp, symbol_info, tick) ==
  IF symbol_info = None \/ tick = None THEN None
  ELSE
    LET info == symbol_info[1]
        t == tick[1]
        buy == HasBuy(signal.direction)
        order_type == IF signal.is_limit
                        THEN (IF buy THEN "ORDER_TYPE_BUY_LIMIT" ELSE "ORDER_TYPE_SELL_LIMIT")
                        ELSE (IF buy THEN "ORDER_TYPE_BUY" ELSE "ORDER_TYPE_SELL")
        current_price == IF buy THEN t.ask ELSE t.bid
        price == IF signal.is_limit THEN signal.entry[1] ELSE current_price
        tooClose == signal.is_limit
                    /\ Abs(price_to_pips(price, current_price, PointUnits, signal.symbol)
                           - price_to_pips(current_price, current_price, PointUnits,
                                           signal.symbol)) < DEVIATION
        sl == round_to_increment(signal.sl, PointUnits)
        rtp == round_to_increment(tp, PointUnits)
    IN  IF current_price = 0 THEN None
        ELSE IF tooClose THEN None
        ELSE IF ~validate_sl_tp_prices(price, signal.sl, tp, info, order_type) THEN None
        ELSE IF price = 0 \/ sl = 0 \/ rtp = 0 THEN None
        ELSE Some([action |-> IF signal.is_limit THEN "TRADE_ACTION_PENDING"
                                                 ELSE "TRADE_ACTION_DEAL",
                   symbol |-> signal.symbol, type |-> order_type, price |-> price,
                   sl |-> sl, tp |-> rtp, tp_index |-> IndexOf(signal.tp, rtp)])

\* the per-instrument ceilings of check_symbol_capacity_advanced
system_limits ==
  [EURUSD |-> 8, GBPUSD |-> 8, USDJPY |-> 8, USDCHF |-> 8, USDCAD |-> 8,
   AUDUSD |-> 8, NZDUSD |-> 8, EURGBP |-> 8, EURJPY |-> 8, GBPJPY |-> 8,
   GBPAUD |-> 4, AUDCHF |-> 4, NZDCHF |-> 4, CADCHF |-> 4,
   AUDJPY |-> 4, NZDJPY |-> 4, CADJPY |-> 4, CHFJPY |-> 4,
   GBPNZD |-> 2, EURNZD |-> 2, NZDCAD |-> 2, GBPCAD |-> 4,
   US30Cash |-> 4, US100Cash |-> 4, JP225Cash |-> 2, GER40Cash |-> 2,
   XAUUSDx |-> 4, GOLD |-> 4, OILCash |-> 2]

total_limits ==
  [EURUSD |-> 20, GBPUSD |-> 20, USDJPY |-> 20, USDCHF |-> 20, USDCAD |-> 20,
   AUDUSD |-> 20, NZDUSD |-> 20, EURGBP |-> 20, EURJPY |-> 20, GBPJPY |-> 20,
   GBPAUD |-> 15, AUDCHF |-> 15, NZDCHF |-> 15, CADCHF |-> 15,
   AUDJPY |-> 15, NZDJPY |-> 15, CADJPY |-> 15, CHFJPY |-> 15,
   GBPNZD |-> 10, EURNZD |-> 10, NZDCAD |-> 10, GBPCAD |-> 15,
   US30Cash |-> 15, US100Cash |-> 15, JP225Cash |-> 10, GER40Cash |-> 10,
   XAUUSDx |-> 15, GOLD |-> 15, OILCash |-> 10]

max_system(symbol) ==
  IF symbol \in DOMAIN system_limits THEN system_limits[symbol] ELSE DefaultSystemLimit

max_total(symbol) ==
  IF symbol \in DOMAIN total_limits THEN total_limits[symbol] ELSE DefaultTotalLimit

\* actual_available = min(system_available, total_available)
actual_available(symbol, counts) ==
  Min(max_system(symbol) - counts.system, max_total(symbol) - counts.total)

\* check_symbol_capacity_advanced: <<can_place, available>>
check_symbol_capacity_advanced(symbol, positions_needed, counts) ==
  LET available == actual_available(symbol, counts)
  IN  <<positions_needed <= available, available>>

\* a faulty cap: the last `available` take-profits instead of the first
CappedToLast(tp, available) ==
  SubSeq(tp, Len(tp) - Min(available, Len(tp)) + 1, Len(tp))

\* signal['tp'][:available]
CappedTakeProfits(tp, available) == SubSeq(tp, 1, Min(available, Len(tp)))

\* a faulty removal: the last element goes, whatever the item
RemoveLast(list, item) == SubSeq(list, 1, Len(list) - 1)

\* list.remove(item): the list without its first element equal to item
Remove(list, item) ==
  LET j == IndexOf(list, item)
  IN  IF j = 0 THEN list
      ELSE SubSeq(list, 1, j - 1) \o SubSeq(list, j + 1, Len(list))

\* the entry add_signal_to_queue builds
QueuedSignal(signal, reason, t) ==
  [signal |-> signal, queued_at |-> t, symbol |-> signal.symbol, reason |-> reason,
   expires_at |-> t + ExpiryTicks]

\* ------------------------------------------------------------------ tasks
\* locals of one run of execute_trade_internal / execute_trade_internal_direct,
\* with the take-profits it has tried so far (attempted) and the capacity the
\* venue's counts gave when it started (avail)
IdleExec ==
  [sig |-> None, orig_tp |-> <<>>, i |-> 0, attempt |-> 0, req |-> None,
   result |-> "", success |-> FALSE, trades_info |-> <<>>, attempted |-> <<>>,
   decided |-> FALSE, avail |-> 0, item |-> None, outcome |-> "idle"]

\* asyncio.create_task(process_order_queue())
NewDrainTask ==
  [kind |-> "drain", pc |-> "created", batch |-> <<>>, snap |-> <<>>, k |-> 0,
   current_time |-> 0, executed_count |-> 0, expired_count |-> 0, x |-> IdleExec]

\* asyncio.create_task(start_market_monitor())
NewMonitorTask ==
  [kind |-> "monitor", pc |-> "created", batch |-> <<>>, snap |-> <<>>, k |-> 0,
   current_time |-> 0, executed_count |-> 0, expired_count |-> 0, x |-> IdleExec]

TaskIds == 1..Len(tasks)

\* entries a previous run of the process left in the file
FileEntryA ==
  QueuedSignal(NewSignal(0, "EURUSD", <<110>>), "Market closed", 0 - 1)

FileEntryB ==
  QueuedSignal(NewSignal(0 - 1, "EURUSD", <<130, 120>>), "No capacity", 0)

IntentIds == (0 - 1)..MaxSubmits

\* what the environment does in one behaviour: messages only; timer expiries
\* over a backlog only; a little of both
Scenarios ==
  {[file |-> <<>>, submits |-> MaxSubmits, wakes |-> 0, starts |-> 0, ticks |-> 0],
   [file |-> <<FileEntryA, FileEntryB>>, submits |-> 0, wakes |-> MaxWakes,
    starts |-> MaxMonitorStarts, ticks |-> MaxTime],
   [file |-> <<>>, submits |-> Min(MixedSubmits, MaxSubmits),
    wakes |-> MixedWakes, starts |-> 0, ticks |-> 0]}

\* ---------------------------------------------- trade manager: inputs
TMSymbols == {"EURUSD", "GBPUSD"}

\* groups of legs as execute_trade_internal records them in trades_info
\* (ticket, tp, sl, direction, entry), with the price at which the venue
\* opened their positions; entry is the signal's entry, none for a market order
Groups ==
  {[id |-> 1, symbol |-> "EURUSD", direction |-> "BUY", entry |-> None,
    price_open |-> 100, sl |-> 90,
    legs |-> <<[ticket |-> 1, tp |-> 110], [ticket |-> 2, tp |-> 120],
               [ticket |-> 3, tp |-> 130]>>],
   [id |-> 2, symbol |-> "EURUSD", direction |-> "SELL", entry |-> None,
    price_open |-> 103, sl |-> 115,
    legs |-> <<[ticket |-> 4, tp |-> 95]>>],
   [id |-> 3, symbol |-> "GBPUSD", direction |-> "BUY", entry |-> Some(101),
    price_open |-> 101, sl |-> 90,
    legs |-> <<[ticket |-> 5, tp |-> 110]>>]}

Tickets == UNION {{g.legs[j].ticket : j \in 1..Len(g.legs)} : g \in Groups}

GroupOf(ticket) ==
  CHOOSE g \in Groups : \E j \in 1..Len(g.legs) : g.legs[j].ticket = ticket

\* position.price_current
Prices == {100, 105}

\* what the venue answers to one _modify_sl: symbol_info is None ("noinfo"),
\* or symbol_info is found and order_send returns None, a retcode that is
\* not DONE, or DONE
ModifyAnswers == {"noinfo", "None", "REJECTED", "DONE"}

NoTrades == [s \in TMSymbols |-> None]

TrackingInit ==
  /\ active_trades = NoTrades       \* defaultdict(list)
  /\ positions = Tickets
  /\ price_current = 105
  /\ added = {}
  /\ pushed = {}
  /\ rejected = {}
  /\ last_cycle = None

\* no function has been called on its own and no request has been built
NoCall == [fn |-> "", args |-> <<>>, result |-> <<>>]
ProbeIdle == call = NoCall /\ legs = <<>>

Init ==
  /\ TrackingInit
  /\ ProbeIdle
  /\ now = 0
  /\ marketOpen \in [Symbols -> BOOLEAN]
  /\ venuePending \in PendingLevels
  /\ \E sc \in Scenarios :
       /\ queue_file = sc.file
       /\ budget = [submits |-> sc.submits, wakes |-> sc.wakes, starts |-> sc.starts,
                    ticks |-> sc.ticks]
  /\ order_queue = <<>>
  /\ queue_processing = FALSE
  /\ market_closed_signals = <<>>
  /\ market_monitor_running = FALSE
  /\ tasks = <<NewMonitorTask>>      \* main(): create_task(start_market_monitor())
  /\ running = 0
  /\ nextId = 1
  /\ execCount = [j \in IntentIds |-> 0]

\* ------------------------------------------------------------ environment
Tick ==
  /\ running = 0
  /\ budget.ticks > 0
  /\ now' = now + 1
  /\ budget' = [budget EXCEPT !.ticks = @ - 1]
  /\ UNCHANGED <<marketOpen, venuePending, flags, deferred, order_queue, tasks,
                 running, nextId, execCount>>

\* the clock crosses a boundary of the symbol's trading hours
MarketToggle(s) ==
  /\ running = 0
  /\ marketOpen' = [marketOpen EXCEPT ![s] = ~marketOpen[s]]
  /\ UNCHANGED <<now, venuePending, budget, flags, deferred, order_queue, tasks,
                 running, nextId, execCount>>

\* other parties place or cancel pending orders
VenueChange(n) ==
  /\ running = 0
  /\ n # venuePending
  /\ venuePending' = n
  /\ UNCHANGED <<now, marketOpen, budget, flags, deferred, order_queue, tasks,
                 running, nextId, execCount>>

\* ------------------------------------------------- add_signal_to_queue
\* the deferred queue after add_signal_to_queue(signal, reason)
add_signal_to_queue(signal, reason) ==
  Append(market_closed_signals, QueuedSignal(signal, reason, now))

\* ------------------------------------------------------ execute_trade
\* a faulty entry point: a drain task is created for the first signal only
DrainNeverCreated == \A t \in 1..Len(tasks) : tasks[t].kind # "drain"

\* `if not queue_processing` of execute_trade
DrainIdle == ~queue_processing

\* execute_trade(signal), the definition main.py imports (it never asks the
\* venue for its pending count): info is the answer of mt5.symbol_info.
\* main() registers the message handler after it has created the monitor
\* task, so the monitor has run its first stretch before any message.
execute_trade(symbol, tps, info) ==
  LET signal == NewSignal(nextId, symbol, tps)
      accepted == info # None /\ info[1].trade_mode_full
  IN
  /\ running = 0
  /\ tasks[1].pc # "created"
  /\ budget.submits > 0
  /\ budget' = [budget EXCEPT !.submits = @ - 1]
  /\ nextId' = nextId + 1
  /\ IF accepted
       THEN /\ order_queue' = Append(order_queue, signal)
            /\ tasks' = IF DrainIdle THEN Append(tasks, NewDrainTask) ELSE tasks
       ELSE UNCHANGED <<order_queue, tasks>>
  /\ UNCHANGED <<now, marketOpen, venuePending, flags, deferred, running, execCount>>

Submit ==
  \E symbol \in Symbols, tps \in TpLists, info \in SymbolInfos :
    execute_trade(symbol, tps, info)

\* ------------------------------------------------- process_order_queue
SetTask(t, rec) == tasks' = [tasks EXCEPT ![t] = rec]

\* a faulty guard: the flag is not looked at
DrainGuardMissing == FALSE

\* `if queue_processing: return`
DrainAlreadyRunning == queue_processing

\* a faulty guard: the early return goes through `finally` and clears the flag
FlagClearedAtGuard == FALSE

\* the flag after `if queue_processing: return`, which is before the `try`
FlagAfterGuardReturn == queue_processing

\* the task starts to run: the guard, then the flag
DrainStart(t) ==
  /\ running = 0
  /\ tasks[t].kind = "drain" /\ tasks[t].pc = "created"
  /\ IF DrainAlreadyRunning
       THEN /\ SetTask(t, [tasks[t] EXCEPT !.pc = "returned"])
            /\ queue_processing' = FlagAfterGuardReturn
            /\ UNCHANGED running
       ELSE /\ queue_processing' = TRUE
            /\ SetTask(t, [tasks[t] EXCEPT !.pc = "loop"])
            /\ running' = t
  /\ UNCHANGED <<env, market_monitor_running, deferred, order_queue, nextId, execCount>>

\* a faulty batch: the signals are taken from the right end of the deque
PopRight(queue, n) == [k \in 1..n |-> queue[Len(queue) + 1 - k]]

\* n times `batch.append(order_queue.popleft())`
PopLeft(queue, n) == SubSeq(queue, 1, n)

\* `while order_queue:` and the filling of a batch; `finally` when the queue is empty
DrainLoop(t) ==
  /\ running = t
  /\ tasks[t].kind = "drain" /\ tasks[t].pc = "loop"
  /\ IF order_queue = <<>>
       THEN /\ queue_processing' = FALSE
            /\ SetTask(t, [tasks[t] EXCEPT !.pc = "done", !.x = IdleExec])
            /\ running' = 0
            /\ UNCHANGED order_queue
       ELSE LET n == Min(BatchSize, Len(order_queue))
            IN  /\ SetTask(t, [tasks[t] EXCEPT !.pc = "batch",
                                               !.batch = PopLeft(order_queue, n)])
                /\ order_queue' = SubSeq(order_queue, n + 1, Len(order_queue))
                /\ UNCHANGED <<queue_processing, running>>
  /\ UNCHANGED <<env, market_monitor_running, deferred, nextId, execCount>>

\* a faulty dispatcher: the market hours are not looked at
MarketNeverClosed(symbol) == FALSE

\* `if not is_market_open(signal['symbol'])` of execute_trade_internal
MarketClosedAtDispatch(symbol) == ~marketOpen[symbol]

\* execute_trade_internal(signal) up to its placement loop: info is
\* validate_symbol's answer, counts the venue's counts for the symbol
execute_trade_internal(t, signal, info, counts) ==
  LET needed == Len(signal.tp)
      cap == check_symbol_capacity_advanced(signal.symbol, needed, counts)
      can_place == cap[1]
      available == cap[2]
      x0 == [IdleExec EXCEPT !.sig = Some(signal), !.orig_tp = signal.tp]
  IN
  IF MarketClosedAtDispatch(signal.symbol)
    THEN /\ market_closed_signals' = add_signal_to_queue(signal, "Market closed")
         /\ queue_file' = market_closed_signals'
         /\ SetTask(t, [tasks[t] EXCEPT !.batch = Tail(@),
                                        !.x = [x0 EXCEPT !.outcome = "queued_closed"]])
    ELSE IF info = None
      THEN /\ SetTask(t, [tasks[t] EXCEPT !.batch = Tail(@),
                                          !.x = [x0 EXCEPT !.outcome = "invalid"]])
           /\ UNCHANGED deferred
      ELSE IF ~can_place /\ ~(available > 0)
        THEN /\ market_closed_signals' = add_signal_to_queue(signal, "No capacity")
             /\ queue_file' = market_closed_signals'
             /\ SetTask(t, [tasks[t] EXCEPT !.batch = Tail(@),
                                            !.x = [x0 EXCEPT !.outcome = "queued_nocap",
                                                             !.decided = TRUE,
                                                             !.avail = available]])
        ELSE /\ SetTask(t, [tasks[t] EXCEPT
                   !.batch = Tail(@), !.pc = "prep",
                   !.x = [x0 EXCEPT
                            !.sig = Some([signal EXCEPT !.tp =
                                            IF can_place THEN signal.tp
                                            ELSE CappedTakeProfits(signal.tp, available)]),
                            !.i = 1, !.decided = TRUE, !.avail = available,
                            !.outcome = "placing"]])
             /\ UNCHANGED deferred

\* `for signal in batch:` one signal is taken and dispatched; after the last
\* one, the pause before the next batch or the next test of the queue
DrainBatch(t) ==
  /\ running = t
  /\ tasks[t].kind = "drain" /\ tasks[t].pc = "batch"
  /\ IF tasks[t].batch = <<>>
       THEN /\ IF order_queue # <<>>
                 THEN /\ SetTask(t, [tasks[t] EXCEPT !.pc = "sleep10", !.x = IdleExec])
                      /\ running' = 0
                 ELSE /\ SetTask(t, [tasks[t] EXCEPT !.pc = "loop", !.x = IdleExec])
                      /\ UNCHANGED running
            /\ UNCHANGED deferred
       ELSE /\ \E info \in SymbolInfos, counts \in CapacityAnswers :
                 execute_trade_internal(t, Head(tasks[t].batch), info, counts)
            /\ UNCHANGED running
  /\ UNCHANGED <<env, flags, order_queue, nextId, execCount>>

\* asyncio.sleep(10) is over
DrainWake(t) ==
  /\ running = 0
  /\ tasks[t].kind = "drain" /\ tasks[t].pc = "sleep10"
  /\ SetTask(t, [tasks[t] EXCEPT !.pc = "loop"])
  /\ running' = t
  /\ UNCHANGED <<env, flags, deferred, order_queue, nextId, execCount>>

\* ------------------------------------------------------ the placement loop
\* (the same loop in execute_trade_internal and execute_trade_internal_direct)

\* a faulty sweep: an entry whose execution failed is kept for the next sweep
RemoveOnSuccessOnly(list, item, success) ==
  IF success THEN Remove(list, item) ELSE list

\* the queue after the sweep's `market_closed_signals.remove(queued_item)`,
\* made whether the execution succeeded or not
RemoveAfterAttempt(list, item, success) == Remove(list, item)

\* the run returns `success` to its caller: the drain loop goes on with its
\* batch; the sweep counts the execution and removes the entry
ExecReturn(t) ==
  LET x == tasks[t].x
  IN  IF tasks[t].kind = "drain"
        THEN /\ SetTask(t, [tasks[t] EXCEPT !.pc = "batch", !.x.outcome = "returned"])
             /\ UNCHANGED market_closed_signals
        ELSE /\ market_closed_signals' =
                  RemoveAfterAttempt(market_closed_signals, x.item[1], x.success)
             /\ SetTask(t, [tasks[t] EXCEPT
                              !.pc = "item", !.k = @ + 1,
                              !.executed_count = IF x.success THEN @ + 1 ELSE @,
                              !.x.outcome = "returned"])

\* a faulty loop: a request that failed validation is sent all the same
RequestNeverRejected(request) == FALSE

\* `if request is None: ... continue`
RequestRejected(request) == request = None

\* a faulty loop: one attempt per leg
SingleAttempt(attempt) == attempt < 1

\* `for attempt in range(max_retries)`: another attempt follows `attempt` failures
RetriesLeft(attempt) == attempt < MaxRetries

\* a faulty loop: a failed leg ends the loop over the n take-profits
BreakAfterFailedLeg(i, n) == n + 1

\* `continue` of the loop over the take-profits: a failed leg is followed by
\* the next one
AfterFailedLeg(i, n) == i + 1

\* `for tp in signal['tp']:` the next take-profit, its request built
LegPrep(t) ==
  /\ running = t
  /\ tasks[t].pc = "prep"
  /\ LET x == tasks[t].x
         signal == x.sig[1]
     IN  IF x.i > Len(signal.tp)
           THEN ExecReturn(t)
           ELSE /\ \E info \in SymbolInfos, tick \in Ticks :
                     LET tp == signal.tp[x.i]
                         request == prepare_order_request(signal, tp, info, tick)
                     IN  SetTask(t, [tasks[t] EXCEPT
                           !.x.attempted = Append(@, tp),
                           !.x.req = request,
                           !.x.attempt = 0,
                           !.x.result = "",
                           !.x.i = IF RequestRejected(request)
                                     THEN AfterFailedLeg(@, Len(signal.tp)) ELSE @,
                           !.pc = IF RequestRejected(request) THEN "prep" ELSE "send"])
                /\ UNCHANGED market_closed_signals
  /\ UNCHANGED <<env, flags, queue_file, order_queue, running, nextId, execCount>>

\* `result = mt5.order_send(request)` and what follows it in the retry loop
LegSend(t) ==
  /\ running = t
  /\ tasks[t].pc = "send"
  /\ \E result \in SendResults :
       CASE result = "DONE" ->
              /\ SetTask(t, [tasks[t] EXCEPT
                    !.x.result = result,
                    !.x.success = TRUE,
                    !.x.trades_info = Append(@, tasks[t].x.sig[1].tp[tasks[t].x.i]),
                    !.x.i = @ + 1, !.x.req = None, !.pc = "prep"])
              /\ UNCHANGED running
         [] result = "RAISED" ->       \* `except Exception ... continue`
              /\ SetTask(t, [tasks[t] EXCEPT
                    !.x.result = result,
                    !.x.i = AfterFailedLeg(@, Len(tasks[t].x.sig[1].tp)),
                    !.x.req = None, !.pc = "prep"])
              /\ UNCHANGED running
         [] OTHER ->
              /\ SetTask(t, [tasks[t] EXCEPT
                    !.x.result = result, !.x.attempt = @ + 1, !.pc = "sleep2"])
              /\ running' = 0
  /\ UNCHANGED <<env, flags, deferred, order_queue, nextId, execCount>>

\* asyncio.sleep(2) is over: the next attempt, or the loop's `else` after the last
LegWake(t) ==
  /\ running = 0
  /\ tasks[t].pc = "sleep2"
  /\ IF RetriesLeft(tasks[t].x.attempt)
       THEN SetTask(t, [tasks[t] EXCEPT !.pc = "send", !.x.result = ""])
       ELSE SetTask(t, [tasks[t] EXCEPT
                          !.pc = "prep", !.x.result = "",
                          !.x.i = AfterFailedLeg(@, Len(tasks[t].x.sig[1].tp)),
                          !.x.req = None])
  /\ running' = t
  /\ UNCHANGED <<env, flags, deferred, order_queue, nextId, execCount>>

\* ------------------------------------------------- start_market_monitor
\* a further call of start_market_monitor
StartMonitor ==
  /\ running = 0
  /\ budget.starts > 0
  /\ budget' = [budget EXCEPT !.starts = @ - 1]
  /\ tasks' = Append(tasks, NewMonitorTask)
  /\ UNCHANGED <<now, marketOpen, venuePending, flags, deferred, order_queue,
                 running, nextId, execCount>>

\* a faulty guard: the flag is not looked at
MonitorGuardMissing == FALSE

\* `if market_monitor_running: return`
MonitorAlreadyRunning == market_monitor_running

\* load_queue_from_file(): the list the file holds, [] if there is no file
load_queue_from_file == queue_file

\* the task starts to run: the guard, the flag, the load
MonitorStart(t) ==
  /\ running = 0
  /\ tasks[t].kind = "monitor" /\ tasks[t].pc = "created"
  /\ IF MonitorAlreadyRunning
       THEN /\ SetTask(t, [tasks[t] EXCEPT !.pc = "returned"])
            /\ UNCHANGED <<market_monitor_running, market_closed_signals, running>>
       ELSE /\ market_monitor_running' = TRUE
            /\ market_closed_signals' = load_queue_from_file
            /\ SetTask(t, [tasks[t] EXCEPT !.pc = "sweep"])
            /\ running' = t
  /\ UNCHANGED <<env, queue_processing, queue_file, order_queue, nextId, execCount>>

\* process_queued_signals() is entered: nothing to do, or the time is read
\* and the loop starts over a copy of the queue
SweepStart(t) ==
  /\ running = t
  /\ tasks[t].kind = "monitor" /\ tasks[t].pc = "sweep"
  /\ IF market_closed_signals = <<>>
       THEN /\ SetTask(t, [tasks[t] EXCEPT !.pc = "sleep120"])
            /\ running' = 0
       ELSE /\ SetTask(t, [tasks[t] EXCEPT
                  !.pc = "item", !.snap = market_closed_signals, !.k = 1,
                  !.current_time = now, !.executed_count = 0, !.expired_count = 0])
            /\ UNCHANGED running
  /\ UNCHANGED <<env, flags, deferred, order_queue, nextId, execCount>>

\* execute_trade_internal_direct(signal) up to its placement loop: info is
\* validate_symbol's answer, pending the symbol's pending-order count, counts
\* the venue's counts for the symbol (which this function never asks for)
execute_trade_internal_direct(t, item, info, pending, counts) ==
  LET signal == item.signal
      x0 == [IdleExec EXCEPT !.sig = Some(signal), !.orig_tp = signal.tp,
                             !.item = Some(item),
                             !.avail = actual_available(signal.symbol, counts),
                             !.outcome = "placing"]
  IN  IF info = None \/ pending >= PendingLimit
        THEN SetTask(t, [tasks[t] EXCEPT !.pc = "prep",
                                         !.x = [x0 EXCEPT !.i = Len(signal.tp) + 1,
                                                          !.outcome = "refused"]])
        ELSE SetTask(t, [tasks[t] EXCEPT !.pc = "prep", !.x = [x0 EXCEPT !.i = 1]])

\* `for queued_item in market_closed_signals[:]:` one entry; after the last
\* one the summary, which saves the queue if anything was executed or expired
SweepItem(t) ==
  /\ running = t
  /\ tasks[t].kind = "monitor" /\ tasks[t].pc = "item"
  /\ LET T == tasks[t]
     IN
     IF T.k > Len(T.snap)
       THEN /\ queue_file' = IF T.executed_count > 0 \/ T.expired_count > 0
                               THEN market_closed_signals ELSE queue_file
            /\ SetTask(t, [T EXCEPT !.pc = "sleep120", !.snap = <<>>, !.k = 0,
                                    !.x = IdleExec])
            /\ running' = 0
            /\ UNCHANGED <<market_closed_signals, execCount>>
       ELSE LET item == T.snap[T.k]
            IN  IF T.current_time > item.expires_at
                  THEN /\ market_closed_signals' = Remove(market_closed_signals, item)
                       /\ SetTask(t, [T EXCEPT !.expired_count = @ + 1, !.k = @ + 1,
                                               !.x = IdleExec])
                       /\ UNCHANGED <<queue_file, running, execCount>>
                  ELSE IF marketOpen[item.signal.symbol]
                    THEN /\ \E info \in SymbolInfos,
                               pending \in SymbolPendingLevels(venuePending),
                               counts \in CapacityAnswers :
                              execute_trade_internal_direct(t, item, info, pending, counts)
                         /\ execCount' = [execCount EXCEPT ![item.signal.id] = @ + 1]
                         /\ UNCHANGED <<deferred, running>>
                    ELSE /\ SetTask(t, [T EXCEPT !.k = @ + 1, !.x = IdleExec])
                         /\ UNCHANGED <<deferred, running, execCount>>
  /\ UNCHANGED <<env, flags, order_queue, nextId>>

\* asyncio.sleep(120) is over
MonitorWake(t) ==
  /\ running = 0
  /\ tasks[t].kind = "monitor" /\ tasks[t].pc = "sleep120"
  /\ budget.wakes > 0
  /\ budget' = [budget EXCEPT !.wakes = @ - 1]
  /\ SetTask(t, [tasks[t] EXCEPT !.pc = "sweep"])
  /\ running' = t
  /\ UNCHANGED <<now, marketOpen, venuePending, flags, deferred, order_queue, nextId,
                 execCount>>

\* ---------------------------------------------------------- specification
Next ==
  \/ Tick /\ UNCHANGED <<tracking, probe>>
  \/ \E s \in Symbols : MarketToggle(s) /\ UNCHANGED <<tracking, probe>>
  \/ \E n \in PendingLevels : VenueChange(n) /\ UNCHANGED <<tracking, probe>>
  \/ Submit /\ UNCHANGED <<tracking, probe>>
  \/ StartMonitor /\ UNCHANGED <<tracking, probe>>
  \/ \E t \in TaskIds : DrainStart(t) /\ UNCHANGED <<tracking, probe>>
  \/ \E t \in TaskIds : DrainLoop(t) /\ UNCHANGED <<tracking, probe>>
  \/ \E t \in TaskIds : DrainBatch(t) /\ UNCHANGED <<tracking, probe>>
  \/ \E t \in TaskIds : DrainWake(t) /\ UNCHANGED <<tracking, probe>>
  \/ \E t \in TaskIds : LegPrep(t) /\ UNCHANGED <<tracking, probe>>
  \/ \E t \in TaskIds : LegSend(t) /\ UNCHANGED <<tracking, probe>>
  \/ \E t \in TaskIds : LegWake(t) /\ UNCHANGED <<tracking, probe>>
  \/ \E t \in TaskIds : MonitorStart(t) /\ UNCHANGED <<tracking, probe>>
  \/ \E t \in TaskIds : SweepStart(t) /\ UNCHANGED <<tracking, probe>>
  \/ \E t \in TaskIds : SweepItem(t) /\ UNCHANGED <<tracking, probe>>
  \/ \E t \in TaskIds : MonitorWake(t) /\ UNCHANGED <<tracking, probe>>

Spec == Init /\ [][Next]_vars

\* the event loop runs a task that can run
FairSpec == Spec /\ WF_vars(Next)

\* one message arrives while the monitor sweeps a backlog of one entry: the
\* same program, started with logs/market_queue.json holding FileEntryA
InitBacklog ==
  /\ TrackingInit
  /\ ProbeIdle
  /\ now = 0
  /\ marketOpen \in [Symbols -> BOOLEAN]
  /\ venuePending \in PendingLevels
  /\ queue_file = <<FileEntryA>>
  /\ budget = [submits |-> MixedSubmits, wakes |-> MixedWakes, starts |-> 0, ticks |-> 0]
  /\ order_queue = <<>>
  /\ queue_processing = FALSE
  /\ market_closed_signals = <<>>
  /\ market_monitor_running = FALSE
  /\ tasks = <<NewMonitorTask>>
  /\ running = 0
  /\ nextId = 1
  /\ execCount = [j \in IntentIds |-> 0]

\* the steps that can be taken from there
NextBacklog ==
  \/ \E s \in Symbols : MarketToggle(s) /\ UNCHANGED <<tracking, probe>>
  \/ \E n \in PendingLevels : VenueChange(n) /\ UNCHANGED <<tracking, probe>>
  \/ Submit /\ UNCHANGED <<tracking, probe>>
  \/ \E t \in TaskIds : DrainStart(t) /\ UNCHANGED <<tracking, probe>>
  \/ \E t \in TaskIds : DrainLoop(t) /\ UNCHANGED <<tracking, probe>>
  \/ \E t \in TaskIds : DrainBatch(t) /\ UNCHANGED <<tracking, probe>>
  \/ \E t \in TaskIds : LegPrep(t) /\ UNCHANGED <<tracking, probe>>
  \/ \E t \in TaskIds : LegSend(t) /\ UNCHANGED <<tracking, probe>>
  \/ \E t \in TaskIds : LegWake(t) /\ UNCHANGED <<tracking, probe>>
  \/ \E t \in TaskIds : MonitorStart(t) /\ UNCHANGED <<tracking, probe>>
  \/ \E t \in TaskIds : SweepStart(t) /\ UNCHANGED <<tracking, probe>>
  \/ \E t \in TaskIds : SweepItem(t) /\ UNCHANGED <<tracking, probe>>
  \/ \E t \in TaskIds : MonitorWake(t) /\ UNCHANGED <<tracking, probe>>

SpecBacklog == InitBacklog /\ [][NextBacklog]_vars

\* a step of the program, as opposed to one of its environment: the event
\* loop runs a task that is ready, and the timer of a sleeping task expires
ProgramStep ==
  \E t \in TaskIds :
    /\ \/ DrainStart(t) \/ DrainLoop(t) \/ DrainBatch(t) \/ DrainWake(t)
       \/ LegPrep(t) \/ LegSend(t) \/ LegWake(t)
       \/ MonitorStart(t) \/ SweepStart(t) \/ SweepItem(t)
    /\ UNCHANGED <<tracking, probe>>

\* the event loop does not stop while a task can run
LiveSpec == Spec /\ WF_vars(ProgramStep)

\* ------------------------------------------------------- trade manager
\* (the class of trade_manager.py, on its own: no handler of main.py or
\* mt5_handler.py creates a TradeManager or calls one)

\* the venue closes a position (take-profit or stop-loss hit, manual close)
ClosePosition(k) ==
  /\ k \in positions
  /\ positions' = positions \ {k}
  /\ last_cycle' = None
  /\ UNCHANGED <<active_trades, price_current, added, pushed, rejected>>

\* the market moves
PriceMove(p) ==
  /\ p # price_current
  /\ price_current' = p
  /\ last_cycle' = None
  /\ UNCHANGED <<active_trades, positions, added, pushed, rejected>>

\* the dict add_trades stores for one leg: position = positions_get(ticket);
\* `if position: trade['entry'] = position[0].price_open`
TradeOf(g, j) ==
  [ticket |-> g.legs[j].ticket, tp |-> g.legs[j].tp, sl |-> g.sl,
   direction |-> g.direction, group |-> g.id,
   entry |-> IF g.legs[j].ticket \in positions THEN Some(g.price_open) ELSE g.entry]

Tracked(symbol) ==
  IF active_trades[symbol] = None THEN <<>> ELSE active_trades[symbol][1]

\* add_trades(symbol, trades_info)
add_trades(g) ==
  /\ g.id \notin added
  /\ added' = added \cup {g.id}
  /\ active_trades' =
       [active_trades EXCEPT ![g.symbol] =
          Some(Tracked(g.symbol) \o [j \in 1..Len(g.legs) |-> TradeOf(g, j)])]
  /\ last_cycle' = None
  /\ UNCHANGED <<positions, price_current, pushed, rejected>>

RECURSIVE InsertByTp(_, _)
InsertByTp(trade, sorted) ==
  IF sorted = <<>> THEN <<trade>>
  ELSE IF trade.tp < Head(sorted).tp THEN <<trade>> \o sorted
  ELSE <<Head(sorted)>> \o InsertByTp(trade, Tail(sorted))

RECURSIVE SortedFrom(_, _)
SortedFrom(trades, acc) ==
  IF trades = <<>> THEN acc
  ELSE SortedFrom(Tail(trades), InsertByTp(Head(trades), acc))

\* sorted(trades, key=lambda x: x['tp']): ascending, stable
sorted_trades(trades) == SortedFrom(trades, <<>>)

\* a faulty check: a stop-loss at the current price passes
validate_modify_sl_lenient(symbol_info, position, new_sl) ==
  /\ symbol_info # None
  /\ new_sl # None
  /\ ~(position.type = "BUY" /\ new_sl[1] > position.price_current)
  /\ ~(position.type = "SELL" /\ new_sl[1] < position.price_current)

\* utils.validation.validate_modify_sl; a new_sl that is no number makes the
\* comparison raise, which the function answers with False
validate_modify_sl(symbol_info, position, new_sl) ==
  /\ symbol_info # None
  /\ new_sl # None
  /\ ~(position.type = "BUY" /\ new_sl[1] >= position.price_current)
  /\ ~(position.type = "SELL" /\ new_sl[1] <= position.price_current)

\* the venue's position for a tracked trade
PositionOf(trade) ==
  [ticket |-> trade.ticket, type |-> trade.direction, price_current |-> price_current]

\* what one call of _modify_sl comes to: "invalid" when validate_modify_sl
\* refuses (nothing is sent), else what order_send returned
ModifyOutcome(trade, new_sl, answer) ==
  IF validate_modify_sl(IF answer = "noinfo" THEN None ELSE Some(answer),
                        PositionOf(trade), new_sl)
    THEN answer ELSE "invalid"

\* `if trade['ticket'] not in position_tickets` with `if i == 0`: the leg of
\* lowest take-profit is the closed one
FirstTpHit(sorted) ==
  sorted # <<>> /\ sorted[1].ticket \notin positions

\* the trades _check_trades calls _modify_sl for: `sorted_trades[1:]` that
\* are still open, when the first one is closed
Targets(trades) ==
  LET sorted == sorted_trades(trades)
  IN  IF FirstTpHit(sorted)
        THEN {sorted[j].ticket : j \in {n \in 2..Len(sorted) : sorted[n].ticket \in positions}}
        ELSE {}

\* a faulty reconciler: closed legs stay in the list
KeepClosed(trades) == trades

\* `trades.remove(trade)` for every trade whose ticket is not open
RemoveClosed(trades) ==
  SelectSeq(trades, LAMBDA tr : tr.ticket \in positions)

\* the body of the loop of _check_trades for one symbol: the list that is
\* left, with trade['sl'] set where the modify was DONE
CheckedTrades(trades, answers) ==
  LET sorted == sorted_trades(trades)
      targets == Targets(trades)
      entry_price == sorted[1].entry
      after(tr) == IF tr.ticket \in targets
                      /\ ModifyOutcome(tr, entry_price, answers[tr.ticket]) = "DONE"
                     THEN [tr EXCEPT !.sl = entry_price[1]] ELSE tr
      kept == RemoveClosed(trades)
  IN  [j \in 1..Len(kept) |-> after(kept[j])]

\* the calls of _modify_sl made for one symbol
ModifyLog(trades, answers) ==
  LET sorted == sorted_trades(trades)
  IN  {[ticket |-> tr.ticket, new_sl |-> sorted[1].entry, old_sl |-> tr.sl,
        type |-> tr.direction, price_current |-> price_current,
        closer |-> sorted[1].ticket,
        outcome |-> ModifyOutcome(tr, sorted[1].entry, answers[tr.ticket])]
       : tr \in {trades[j] : j \in {n \in 1..Len(trades) : trades[n].ticket \in Targets(trades)}}}

\* the symbols _check_trades goes through: the keys of active_trades for
\* which positions_get returned a tuple
Visited(returned) ==
  {s \in TMSymbols : active_trades[s] # None /\ returned[s]}

\* one pass of _check_trades over all symbols (no await in it suspends):
\* returned[s] tells whether positions_get(symbol=s) returned a tuple
_check_trades(returned, answers) ==
  LET log == UNION {ModifyLog(Tracked(s), answers) : s \in Visited(returned)}
      closed == UNION {{Tracked(s)[j].ticket : j \in 1..Len(Tracked(s))} \ positions
                       : s \in Visited(returned)}
  IN  /\ active_trades' =
           [s \in TMSymbols |->
              IF s \notin Visited(returned) THEN active_trades[s]
              ELSE LET left == CheckedTrades(Tracked(s), answers)
                   IN  IF left = <<>> THEN None ELSE Some(left)]
      /\ pushed' = pushed \cup
           {GroupOf(r.ticket).id : r \in {q \in log :
                /\ q.outcome # "invalid"
                /\ GroupOf(q.closer).id = GroupOf(q.ticket).id}}
      /\ rejected' = rejected \cup {r.ticket : r \in {q \in log : q.outcome # "DONE"}}
      /\ last_cycle' = Some([returned |-> returned, closed |-> closed, log |-> log])
      /\ UNCHANGED <<positions, price_current, added>>

\* start_monitoring: one iteration of its loop
CheckTrades ==
  \E returned \in [TMSymbols -> BOOLEAN] :
    \E answers \in [UNION {Targets(Tracked(s)) : s \in Visited(returned)} -> ModifyAnswers] :
      _check_trades(returned, answers)

HandlerIdle ==
  /\ now = 0
  /\ marketOpen = [s \in Symbols |-> TRUE]
  /\ venuePending = 0
  /\ budget = [submits |-> 0, wakes |-> 0, starts |-> 0, ticks |-> 0]
  /\ order_queue = <<>>
  /\ queue_processing = FALSE
  /\ market_closed_signals = <<>>
  /\ market_monitor_running = FALSE
  /\ queue_file = <<>>
  /\ tasks = <<>>
  /\ running = 0
  /\ nextId = 1
  /\ execCount = [j \in IntentIds |-> 0]

InitTM == HandlerIdle /\ TrackingInit /\ ProbeIdle

NextTM ==
  \/ \E g \in Groups : add_trades(g) /\ UNCHANGED <<handler, probe>>
  \/ \E k \in Tickets : ClosePosition(k) /\ UNCHANGED <<handler, probe>>
  \/ \E p \in Prices : PriceMove(p) /\ UNCHANGED <<handler, probe>>
  \/ CheckTrades /\ UNCHANGED <<handler, probe>>

SpecTM == InitTM /\ [][NextTM]_vars

\* ------------------------------------------------------------ text values
\* a Python str is the sequence of its characters
Contains(text, sub) ==
  \E k \in 0..(Len(text) - Len(sub)) : SubSeq(text, k + 1, k + Len(sub)) = sub

\* text[:n]
Take(text, n) == SubSeq(text, 1, Min(n, Len(text)))

Digit(d) == <<"0", "1", "2", "3", "4", "5", "6", "7", "8", "9">>[d + 1]

\* str(n) of a non-negative int
RECURSIVE Decimal(_)
Decimal(n) == IF n < 10 THEN <<Digit(n)>> ELSE Decimal(n \div 10) \o <<Digit(n % 10)>>

\* the characters of the symbols the inputs use
Spelling ==
  [EURUSD |-> <<"E", "U", "R", "U", "S", "D">>,
   GBPUSD |-> <<"G", "B", "P", "U", "S", "D">>,
   GOLD |-> <<"G", "O", "L", "D">>,
   US30Cash |-> <<"U", "S", "3", "0", "C", "a", "s", "h">>,
   US100Cash |-> <<"U", "S", "1", "0", "0", "C", "a", "s", "h">>,
   JP225Cash |-> <<"J", "P", "2", "2", "5", "C", "a", "s", "h">>,
   GER40Cash |-> <<"G", "E", "R", "4", "0", "C", "a", "s", "h">>,
   BTCUSD |-> <<"B", "T", "C", "U", "S", "D">>]

\* ------------------------------------------------- the tag on placed legs
\* signal.get('group_id', f"{signal['symbol']}_{int(time.time())}"), at second t
group_id(signal, t) ==
  IF "group_id" \in DOMAIN signal THEN signal.group_id
  ELSE Spelling[signal.symbol] \o <<"_">> \o Decimal(t)

\* f"G{group_id[:8]}_TP{tp_index}", cut to 28 characters
comment(signal, tp_index, t) ==
  Take(<<"G">> \o Take(group_id(signal, t), 8) \o <<"_", "T", "P">> \o Decimal(tp_index), 28)

\* 'Group' in str(order.comment)
HasGroupMarker(text) == Contains(text, <<"G", "r", "o", "u", "p">>)

\* prepare_order_request with the comment it writes, called at second t
order_request(signal, tp, symbol_info, tick, t) ==
  LET request == prepare_order_request(signal, tp, symbol_info, tick)
  IN  IF request = None THEN None
      ELSE Some([symbol |-> request[1].symbol, type |-> request[1].type,
                 price |-> request[1].price, sl |-> request[1].sl, tp |-> request[1].tp,
                 group |-> Take(group_id(signal, t), 8),
                 comment |-> comment(signal, request[1].tp_index, t)])

\* the counts check_symbol_capacity_advanced takes of a symbol's orders
OrdersOf(symbol) == {k \in 1..Len(legs) : legs[k].request.symbol = symbol}
total_count(symbol) == Cardinality(OrdersOf(symbol))
system_count(symbol) ==
  Cardinality({k \in OrdersOf(symbol) : HasGroupMarker(legs[k].request.comment)})

MaxLegs == 2             \* legs placed in one behaviour

\* the intents whose legs are placed
LegIntents ==
  {NewSignal(1, "EURUSD", <<130, 120>>), NewSignal(2, "EURUSD", <<110>>),
   NewSignal(3, "GOLD", <<110>>)}

\* int(time.time()) at the calls
Clock == {1700000000, 1700000001}

LastBuilt == IF legs = <<>> THEN 0 ELSE legs[Len(legs)].built_at

\* one pass of the placement loop's body that places its leg: the request is
\* built at second t and the venue accepts it
PlaceLeg(signal, j, t, symbol_info, tick) ==
  LET request == order_request(signal, signal.tp[j], symbol_info, tick, t)
  IN  /\ Len(legs) < MaxLegs
      /\ t >= LastBuilt
      /\ \A k \in 1..Len(legs) : <<legs[k].intent, legs[k].leg>> # <<signal.id, j>>
      /\ request # None
      /\ legs' = Append(legs, [intent |-> signal.id, leg |-> j, built_at |-> t,
                               group_id |-> group_id(signal, t),
                               request |-> request[1]])
      /\ UNCHANGED call

\* an admission check of a symbol while the placed legs are all still open
AdmissionCheck(symbol, positions_needed) ==
  LET counts == [total |-> total_count(symbol), system |-> system_count(symbol)]
  IN  /\ call' = [fn |-> "check_symbol_capacity_advanced",
                  args |-> <<symbol, positions_needed>>,
                  result |-> check_symbol_capacity_advanced(symbol, positions_needed,
                                                            counts),
                  counts |-> counts]
      /\ UNCHANGED legs

InitLegs == HandlerIdle /\ TrackingInit /\ ProbeIdle

NextLegs ==
  \/ \E signal \in LegIntents : \E j \in 1..Len(signal.tp) : \E t \in Clock :
       \E symbol_info \in SymbolInfos : \E tick \in Ticks :
         PlaceLeg(signal, j, t, symbol_info, tick) /\ UNCHANGED <<handler, tracking>>
  \/ \E symbol \in {"EURUSD", "GOLD"} : \E positions_needed \in 1..2 :
       AdmissionCheck(symbol, positions_needed) /\ UNCHANGED <<handler, tracking>>

SpecLegs == InitLegs /\ [][NextLegs]_vars

\* ------------------------------------------------------- is_market_open
\* datetime.time(h, m), in minutes of the day
At(h, m) == h * 60 + m

\* the list of forex pairs is_market_open compares the symbol with
ForexPairs ==
  {"EURUSD", "GBPUSD", "USDJPY", "USDCHF", "USDCAD", "AUDUSD", "NZDUSD",
   "EURGBP", "EURJPY", "GBPJPY", "CHFJPY", "AUDJPY", "NZDJPY", "CADJPY",
   "GBPAUD", "GBPCAD", "EURNZD", "AUDCHF", "NZDCHF", "CADCHF"}

\* `'US30' in symbol` and the like
Mentions(symbol, sub) == Contains(Spelling[symbol], sub)

IsUSIndex(symbol) ==
  Mentions(symbol, <<"U", "S", "3", "0">>) \/ Mentions(symbol, <<"U", "S", "1", "0", "0">>)

IsJapanIndex(symbol) ==
  Mentions(symbol, <<"J", "P", "2", "2", "5">>)
    \/ Mentions(symbol, <<"N", "I", "K", "K", "E", "I">>)

IsGermanIndex(symbol) ==
  Mentions(symbol, <<"G", "E", "R", "4", "0">>) \/ Mentions(symbol, <<"D", "A", "X">>)

IsMetalOrOil(symbol) ==
  Mentions(symbol, <<"X", "A", "U">>) \/ Mentions(symbol, <<"G", "O", "L", "D">>)
    \/ Mentions(symbol, <<"O", "I", "L">>)

\* is_market_open at weekday (0 = Monday .. 6 = Sunday) and current_time, UTC;
\* raised: an exception inside the try block
is_market_open(symbol, weekday, current_time, raised) ==
  IF raised THEN TRUE
  ELSE IF weekday = 6 THEN current_time >= At(22, 0)
  ELSE IF weekday = 5 /\ current_time >= At(22, 0) THEN FALSE
  ELSE IF symbol \in ForexPairs THEN TRUE
  ELSE IF IsUSIndex(symbol)
    THEN (IF weekday = 6 THEN current_time >= At(23, 0) ELSE TRUE)
  ELSE IF IsJapanIndex(symbol)
    THEN \/ (At(0, 0) <= current_time /\ current_time <= At(7, 0))
         \/ (At(8, 30) <= current_time /\ current_time <= At(15, 0))
  ELSE IF IsGermanIndex(symbol)
    THEN At(7, 0) <= current_time /\ current_time <= At(21, 0)
  ELSE IF IsMetalOrOil(symbol) THEN TRUE
  ELSE TRUE

\* the symbols is_market_open is asked about
MarketSymbols ==
  {"EURUSD", "US30Cash", "US100Cash", "JP225Cash", "GER40Cash", "GOLD", "BTCUSD"}

Weekdays == 0..6

\* instants of the day, around every time the function compares with
Instants ==
  {At(0, 0), At(6, 59), At(7, 0), At(7, 1), At(8, 29), At(8, 30), At(15, 0), At(15, 1),
   At(21, 0), At(21, 1), At(21, 59), At(22, 0), At(22, 59), At(23, 0), At(23, 59)}

\* a call of is_market_open
MarketCheck(symbol, weekday, current_time, raised) ==
  /\ call' = [fn |-> "is_market_open",
              args |-> [symbol |-> symbol, weekday |-> weekday,
                        current_time |-> current_time, raised |-> raised],
              result |-> is_market_open(symbol, weekday, current_time, raised)]
  /\ UNCHANGED legs

\* ------------------------------------------- check_pending_orders_status
\* mt5.orders_get() answers: None, or the pending orders as runs of n orders
\* of one symbol each
PendingCounts == {150, 151, 170, 171, 190, 191}

OrderBooks ==
  {None, Some(<<>>)}
    \cup {Some(<<[symbol |-> "EURUSD", n |-> c]>>) : c \in PendingCounts}
    \cup {Some(<<[symbol |-> "GOLD", n |-> 1], [symbol |-> "EURUSD", n |-> c - 1]>>) :
            c \in PendingCounts}
    \cup {Some(<<[symbol |-> "EURUSD", n |-> 75], [symbol |-> "GOLD", n |-> 75],
                 [symbol |-> "EURUSD", n |-> c - 150]>>) : c \in PendingCounts \ {150}}

\* len(orders)
RECURSIVE CountOrders(_)
CountOrders(orders) ==
  IF orders = <<>> THEN 0 ELSE orders[1].n + CountOrders(Tail(orders))

\* symbols_count after one more run: items stay in order of first appearance
AddRun(items, run) ==
  IF \E k \in 1..Len(items) : items[k][1] = run.symbol
    THEN [k \in 1..Len(items) |->
            IF items[k][1] = run.symbol THEN <<items[k][1], items[k][2] + run.n>>
                                        ELSE items[k]]
    ELSE Append(items, <<run.symbol, run.n>>)

RECURSIVE symbols_count(_)
symbols_count(orders) ==
  IF orders = <<>> THEN <<>>
  ELSE AddRun(symbols_count(SubSeq(orders, 1, Len(orders) - 1)), orders[Len(orders)])

\* sorted(items, key=lambda x: x[1], reverse=True): stable
InsertByCount(sorted_items, item) ==
  LET after == {k \in 1..Len(sorted_items) : sorted_items[k][2] < item[2]}
      pos == IF after = {} THEN Len(sorted_items) + 1
             ELSE CHOOSE k \in after : \A m \in after : k <= m
  IN  SubSeq(sorted_items, 1, pos - 1) \o <<item>>
        \o SubSeq(sorted_items, pos, Len(sorted_items))

RECURSIVE SortedByCount(_)
SortedByCount(items) ==
  IF items = <<>> THEN <<>>
  ELSE InsertByCount(SortedByCount(SubSeq(items, 1, Len(items) - 1)), items[Len(items)])

\* the status of a pending count
PendingStatus(count) ==
  IF count > CriticalThreshold THEN "CRITICAL"
  ELSE IF count > 170 THEN "WARNING"
  ELSE IF count > 150 THEN "ATTENTION"
  ELSE "OK"

\* check_pending_orders_status: the tuple it returns; raised: an exception
\* inside the try block
check_pending_orders_status(orders, raised) ==
  IF raised THEN <<0, FALSE, "ERROR", <<>>>>
  ELSE IF orders = None THEN <<0, FALSE, "ERROR">>
  ELSE LET count == CountOrders(orders[1])
           status == PendingStatus(count)
       IN  <<count, status \in {"CRITICAL", "WARNING"}, status,
             Take(SortedByCount(symbols_count(orders[1])), 5)>>

\* a call of check_pending_orders_status
PendingCheck(orders, raised) ==
  /\ call' = [fn |-> "check_pending_orders_status",
              args |-> [orders |-> orders, raised |-> raised],
              result |-> check_pending_orders_status(orders, raised)]
  /\ UNCHANGED legs

\* ------------------------------------------------ prepare_order_request
\* the intents whose requests are built: immediate ones quoted at the tick,
\* limit ones at their entry; stop-loss and take-profit around that price
Offsets == {-20, -10, 0, 10, 20}

LimitEntry == 300        \* entry price of the limit intents

RequestSignals ==
  {[id |-> 1, symbol |-> "EURUSD", direction |-> d, is_limit |-> FALSE, entry |-> None,
    sl |-> 100 + a, tp |-> <<100 + b>>, tp_count |-> 1] :
     d \in {"BUY", "SELL"}, a \in Offsets, b \in Offsets}
  \cup
  {[id |-> 1, symbol |-> "EURUSD", direction |-> d, is_limit |-> TRUE,
    entry |-> Some(LimitEntry), sl |-> LimitEntry + a, tp |-> <<LimitEntry + b>>,
    tp_count |-> 1] :
     d \in {"BUY LIMIT", "SELL LIMIT"}, a \in Offsets, b \in Offsets}

\* validate_symbol answers for a symbol that can be traded
RequestInfos == {x \in SymbolInfos : x = None \/ x[1].trade_mode_full}

\* a call of prepare_order_request for the intent's take-profit
PrepareRequest(signal, symbol_info, tick) ==
  /\ call' = [fn |-> "prepare_order_request",
              args |-> [signal |-> signal, tp |-> signal.tp[1],
                        symbol_info |-> symbol_info, tick |-> tick],
              result |-> prepare_order_request(signal, signal.tp[1], symbol_info, tick)]
  /\ UNCHANGED legs

\* ----------------------------------------------------------- parse_signal
\* A message text is its lines, a line the words that whitespace separates
\* (the two re.sub calls only insert such whitespace); None is a message
\* with no text.  The patterns are matched on the words in message order:
\* \s matches line breaks as well.

\* the run of [A-Z0-9] characters the symbol pattern finds in a word
SymbolRun == ("EURUSD" :> "EURUSD" @@ "US30" :> "US30")

indices_map ==
  ("US30" :> "US30Cash" @@ "US100" :> "US100Cash" @@ "DAX" :> "GER40Cash"
     @@ "OIL" :> "OILCash" @@ "NIKKEI" :> "JP225Cash" @@ "GER40" :> "GER40Cash")

\* (BUY|SELL) under re.IGNORECASE, and direction.upper()
Upper == ("BUY" :> "BUY" @@ "buy" :> "BUY" @@ "SELL" :> "SELL" @@ "sell" :> "SELL")

\* \d+(?:\.\d+)? words and float() of them, in price units
NumberValue == ("50" :> 50 @@ "110" :> 110 @@ "120" :> 120 @@ "300" :> 300)

\* words TP\d* | Tp\d* matches whole, with float() of their digits if any
TpLabels == ("TP" :> None @@ "Tp" :> None @@ "TP1" :> Some(1) @@ "TP2" :> Some(2))

\* words (?:SL|SI) matches under re.IGNORECASE
SlLabels == {"SL", "SI", "sl", "Sl"}

RECURSIVE Words(_)
Words(lines) == IF lines = <<>> THEN <<>> ELSE lines[1] \o Words(Tail(lines))

Positions(words) == [k \in 1..Len(words) |-> k]

\* the word at position k, "" past the end
WordAt(words, k) == IF k <= Len(words) THEN words[k] ELSE ""

\* \s*[@]?\s*(\d+(?:\.\d+)?) after position k: the number matched, if any
ValueAfter(words, k) ==
  IF WordAt(words, k + 1) \in DOMAIN NumberValue
    THEN Some(NumberValue[WordAt(words, k + 1)])
  ELSE IF WordAt(words, k + 1) = "@" /\ WordAt(words, k + 2) \in DOMAIN NumberValue
    THEN Some(NumberValue[WordAt(words, k + 2)])
  ELSE None

\* re.findall(r'(BUY|SELL)\s+NOW', ..., re.IGNORECASE)
now_orders(words) ==
  LET Hit(k) == words[k] \in DOMAIN Upper /\ WordAt(words, k + 1) \in {"NOW", "now"}
      hits == SelectSeq(Positions(words), Hit)
  IN  [h \in 1..Len(hits) |-> words[hits[h]]]

\* re.findall(r'(BUY|SELL)\s+limit\s+from\s+(\d+(?:\.\d+)?)', ..., re.IGNORECASE)
limit_orders(words) ==
  LET Hit(k) == /\ words[k] \in DOMAIN Upper
                /\ WordAt(words, k + 1) \in {"limit", "LIMIT"}
                /\ WordAt(words, k + 2) \in {"from", "FROM"}
                /\ WordAt(words, k + 3) \in DOMAIN NumberValue
      hits == SelectSeq(Positions(words), Hit)
  IN  [h \in 1..Len(hits) |-> <<words[hits[h]], NumberValue[words[hits[h] + 3]]>>]

\* what the take-profit pattern captures at a label: the number after it,
\* else, by backtracking over \d*, the digits of the label itself
TpCapture(words, k) ==
  IF ValueAfter(words, k) # None THEN ValueAfter(words, k) ELSE TpLabels[words[k]]

\* re.findall(r'(?:TP\d*|Tp\d*)\s*[@]?\s*(\d+(?:\.\d+)?)', ...) as floats
tp_levels(words) ==
  LET Hit(k) == words[k] \in DOMAIN TpLabels /\ TpCapture(words, k) # None
      hits == SelectSeq(Positions(words), Hit)
  IN  [h \in 1..Len(hits) |-> TpCapture(words, hits[h])[1]]

\* re.search(r'(?:SL|SI)\s*[@]?\s*(\d+(?:\.\d+)?)', ..., re.IGNORECASE)
sl_match(words) ==
  LET Hit(k) == words[k] \in SlLabels /\ ValueAfter(words, k) # None
      hits == SelectSeq(Positions(words), Hit)
  IN  IF hits = <<>> THEN None ELSE ValueAfter(words, hits[1])

\* re.search(r'([A-Z0-9]+)', lines[0].strip())
symbol_match(line) ==
  LET hits == SelectSeq(line, LAMBDA w : w \in DOMAIN SymbolRun)
  IN  IF hits = <<>> THEN None ELSE Some(SymbolRun[hits[1]])

\* parse_signal: None, or the list of signals
parse_signal(message_text) ==
  IF message_text = None THEN None            \* re.sub raises: `except` returns None
  ELSE
    LET lines == message_text[1]
        words == Words(lines)
        found == symbol_match(lines[1])
        symbol == IF found[1] \in DOMAIN indices_map THEN indices_map[found[1]]
                  ELSE found[1]
        nows == now_orders(words)
        limits == limit_orders(words)
        tps == tp_levels(words)
        sl == sl_match(words)
    IN  IF found = None THEN None
        ELSE IF nows = <<>> /\ limits = <<>> THEN None
        ELSE IF tps = <<>> THEN None
        ELSE IF sl = None THEN None
        ELSE Some([h \in 1..Len(nows) |->
                     [symbol |-> symbol, direction |-> Upper[nows[h]],
                      is_limit |-> FALSE, entry |-> None, sl |-> sl[1], tp |-> tps,
                      tp_count |-> Len(tps)]]
                  \o
                  [h \in 1..Len(limits) |->
                     [symbol |-> symbol,
                      direction |-> IF Upper[limits[h][1]] = "BUY" THEN "BUY LIMIT"
                                                                   ELSE "SELL LIMIT",
                      is_limit |-> TRUE, entry |-> Some(limits[h][2]), sl |-> sl[1],
                      tp |-> tps, tp_count |-> Len(tps)]])

\* the messages: a first line, then order lines, take-profit lines and a
\* stop-loss line, each possibly missing or incomplete
FirstLines == {<<>>, <<"gold">>, <<"EURUSD">>, <<"US30">>}

OrderLines ==
  {<<>>, <<<<"BUY">>>>, <<<<"BUY", "NOW">>>>, <<<<"SELL", "limit", "from", "300">>>>,
   <<<<"sell", "now">>, <<"SELL", "limit", "from", "300">>>>}

TakeProfitLines ==
  {<<>>, <<<<"TP">>>>, <<<<"TP1">>>>, <<<<"TP", "110">>>>,
   <<<<"TP1", "@", "110">>, <<"TP2", "@", "120">>>>}

StopLossLines == {<<>>, <<<<"SL">>>>, <<<<"SL", "50">>>>, <<<<"sl", "@", "50">>>>}

Messages ==
  {None} \cup {Some(<<first>> \o orders \o tps \o sl) :
                 first \in FirstLines, orders \in OrderLines,
                 tps \in TakeProfitLines, sl \in StopLossLines}

\* a call of parse_signal
ParseMessage(message_text) ==
  /\ call' = [fn |-> "parse_signal", args |-> [message_text |-> message_text],
              result |-> parse_signal(message_text)]
  /\ UNCHANGED legs

InitCalls == HandlerIdle /\ TrackingInit /\ ProbeIdle

NextCalls ==
  \/ \E symbol \in MarketSymbols : \E weekday \in Weekdays :
       \E current_time \in Instants : \E raised \in BOOLEAN :
         MarketCheck(symbol, weekday, current_time, raised)
           /\ UNCHANGED <<handler, tracking>>
  \/ \E orders \in OrderBooks : \E raised \in BOOLEAN :
       PendingCheck(orders, raised) /\ UNCHANGED <<handler, tracking>>
  \/ \E signal \in RequestSignals : \E symbol_info \in RequestInfos : \E tick \in Ticks :
       PrepareRequest(signal, symbol_info, tick) /\ UNCHANGED <<handler, tracking>>
  \/ \E message_text \in Messages :
       ParseMessage(message_text) /\ UNCHANGED <<handler, tracking>>

SpecCalls == InitCalls /\ [][NextCalls]_vars

\* ------------------------------------------- execute_trade, call by call
MaxEntryCalls == 2       \* calls of execute_trade in one behaviour

required_fields == {"symbol", "direction", "sl", "tp", "tp_count"}

\* the signal without one of its keys
Without(signal, field) == [f \in DOMAIN signal \ {field} |-> signal[f]]

\* the signals handed to execute_trade: those parse_signal makes, and the
\* same with a required key missing
EntrySignals ==
  LET parsed == {NewSignal(nextId, symbol, tps) : symbol \in Symbols, tps \in TpLists}
  IN  parsed \cup {Without(signal, field) : signal \in parsed, field \in required_fields}

\* a faulty entry point: the trade mode is not looked at
TradeModeIgnored(symbol_info) == TRUE

\* symbol_info.trade_mode == mt5.SYMBOL_TRADE_MODE_FULL
TradeModeFull(symbol_info) == symbol_info.trade_mode_full

\* one call of execute_trade(signal): info is the answer of mt5.symbol_info,
\* mapped that of validate_symbol when info is None, raised an exception of
\* the first venue call
ExecuteTradeCall(signal, info, mapped, raised) ==
  LET symbol_info == IF info # None THEN info ELSE mapped
      result == /\ required_fields \subseteq DOMAIN signal
                /\ ~raised
                /\ symbol_info # None
                /\ TradeModeFull(symbol_info[1])
  IN  /\ running = 0
      /\ nextId <= MaxEntryCalls
      /\ nextId' = nextId + 1
      /\ IF result
           THEN /\ order_queue' = Append(order_queue, signal)
                /\ tasks' = IF DrainIdle THEN Append(tasks, NewDrainTask) ELSE tasks
           ELSE UNCHANGED <<order_queue, tasks>>
      /\ call' = [fn |-> "execute_trade",
                  args |-> [signal |-> signal, info |-> info, mapped |-> mapped,
                            raised |-> raised],
                  result |-> result]
      /\ UNCHANGED <<env, flags, deferred, running, execCount, legs>>

\* the monitor sleeps between sweeps; no drain loop is active, or one pauses
\* between two batches with a signal in the queue
InitEntry ==
  /\ TrackingInit
  /\ ProbeIdle
  /\ now = 0
  /\ marketOpen = [s \in Symbols |-> TRUE]
  /\ venuePending = 0
  /\ budget = [submits |-> 0, wakes |-> 0, starts |-> 0, ticks |-> 0]
  /\ market_closed_signals = <<>>
  /\ market_monitor_running = TRUE
  /\ queue_file = <<>>
  /\ running = 0
  /\ nextId = 1
  /\ execCount = [j \in IntentIds |-> 0]
  /\ \/ /\ queue_processing = FALSE
        /\ order_queue = <<>>
        /\ tasks = <<[NewMonitorTask EXCEPT !.pc = "sleep120"]>>
     \/ /\ queue_processing = TRUE
        /\ order_queue = <<NewSignal(0, "EURUSD", <<110>>)>>
        /\ tasks = <<[NewMonitorTask EXCEPT !.pc = "sleep120"],
                     [NewDrainTask EXCEPT !.pc = "sleep10"]>>

NextEntry ==
  \/ \E signal \in EntrySignals : \E info \in SymbolInfos : \E mapped \in SymbolInfos :
       \E raised \in BOOLEAN :
         ExecuteTradeCall(signal, info, mapped, raised) /\ UNCHANGED tracking

SpecEntry == InitEntry /\ [][NextEntry]_vars

\* ------------------------------- the intents of one message as objects
\* The signals of one message are dicts whose 'tp' key refers to one list
\* object (signal_parser.py:70 and 101 store the same tp_levels). lists is the
\* heap of list objects, a signal's tp the index of the list it refers to.

\* after parse_signal: one list object, every signal referring to it
ParsedObjects(message_text) ==
  LET parsed == parse_signal(message_text)
  IN  IF parsed = None
        THEN [lists |-> <<>>, signals |-> <<>>, executed |-> {}, outcome |-> "none"]
        ELSE [lists |-> <<parsed[1][1].tp>>,
              signals |-> [k \in 1..Len(parsed[1]) |-> [parsed[1][k] EXCEPT !.tp = 1]],
              executed |-> {}, outcome |-> "parsed"]

\* a faulty cap: del signal['tp'][available:], which shortens the shared list
TruncateInPlace(lists, ref, available) ==
  [lists |-> [lists EXCEPT ![ref] = CappedTakeProfits(@, available)], ref |-> ref]

\* signal['tp'] = signal['tp'][:available]: the slice is a new list object
\* and the key is bound to it
SliceRebind(lists, ref, available) ==
  [lists |-> Append(lists, CappedTakeProfits(lists[ref], available)),
   ref |-> Len(lists) + 1]

\* a call of parse_signal on a message
ParseObjects(message_text) ==
  /\ call' = [fn |-> "parse_signal",
              args |-> [message_text |-> message_text, k |-> 0,
                        counts |-> [total |-> 0, system |-> 0]],
              result |-> ParsedObjects(message_text)]
  /\ UNCHANGED legs

\* execute_trade_internal on the k-th signal of the message, from the volume
\* (line 572) to the start of the placement loop (line 598), the market open
\* and the symbol valid: counts are the venue's counts for the symbol
ExecuteObject(k, counts) ==
  /\ call.fn \in {"parse_signal", "execute_trade_internal"}
  /\ k \in 1..Len(call.result.signals)
  /\ k \notin call.result.executed
  /\ LET heap == call.result
         signal == heap.signals[k]
         positions_needed == Len(heap.lists[signal.tp])
         answer == check_symbol_capacity_advanced(signal.symbol, positions_needed, counts)
         capped == SliceRebind(heap.lists, signal.tp, answer[2])
     IN  call' = [fn |-> "execute_trade_internal",
                  args |-> [message_text |-> call.args.message_text, k |-> k,
                            counts |-> counts],
                  result |->
                    IF answer[1]
                      THEN [heap EXCEPT !.executed = @ \cup {k}, !.outcome = "placing"]
                    ELSE IF answer[2] > 0
                      THEN [heap EXCEPT !.lists = capped.lists,
                                        !.signals[k].tp = capped.ref,
                                        !.executed = @ \cup {k},
                                        !.outcome = "placing"]
                      ELSE [heap EXCEPT !.executed = @ \cup {k},
                                        !.outcome = "queued"]]
  /\ UNCHANGED legs

InitObjects == HandlerIdle /\ TrackingInit /\ ProbeIdle

NextObjects ==
  \/ \E message_text \in Messages :
       ParseObjects(message_text) /\ UNCHANGED <<handler, tracking>>
  \/ \E k \in 1..2 : \E counts \in CapacityAnswers :
       ExecuteObject(k, counts) /\ UNCHANGED <<handler, tracking>>

SpecObjects == InitObjects /\ [][NextObjects]_vars

\* --------------------------------------------- connecting to the venue
MaxAttempts == 7         \* attempts of one call that are recorded

max_retries == 6
retry_delay == 5

\* what mt5.initialize and mt5.login can do
VenueAnswers == {"yes", "no", "raises"}

\* connect_mt5: True when both calls succeed, False when one of them fails
\* or raises (the `except` logs and returns False); an exception leaves the
\* function only if it is raised while the handler logs (escapes)
connect_mt5(initialized, authorized, escapes) ==
  LET caught == initialized = "raises" \/ (initialized = "yes" /\ authorized = "raises")
  IN  IF caught /\ escapes THEN "raised"
      ELSE IF initialized = "yes" /\ authorized = "yes" THEN "True"
      ELSE "False"

\* 2**n
RECURSIVE Pow2(_)
Pow2(n) == IF n = 0 THEN 1 ELSE 2 * Pow2(n - 1)

\* the outcomes of the attempts so far, the first MaxAttempts of them
Recorded(outcomes, outcome) ==
  IF Len(outcomes) < MaxAttempts THEN Append(outcomes, outcome) ELSE outcomes

\* connect_mt5_with_retry() is called: retries = 0
ConnectStart ==
  /\ call = NoCall
  /\ call' = [fn |-> "connect_mt5_with_retry",
              args |-> [max_retries |-> max_retries, retry_delay |-> retry_delay],
              result |-> [pc |-> "loop", retries |-> 0, outcomes |-> <<>>,
                          last |-> "none", even |-> TRUE,
                          slept |-> 0, returned |-> "none"]]
  /\ UNCHANGED legs

\* `while retries < max_retries:` and one attempt, up to the return, the
\* next test of the loop or the pause of the handler; last is the outcome
\* of the latest attempt and even the parity of their number
ConnectAttempt(initialized, authorized, escapes) ==
  /\ call.fn = "connect_mt5_with_retry"
  /\ call.result.pc = "loop"
  /\ LET r == call.result
         outcome == connect_mt5(initialized, authorized, escapes)
     IN  call' = [call EXCEPT !.result =
           IF ~(r.retries < call.args.max_retries)
             THEN [r EXCEPT !.pc = "returned", !.returned = "False"]
           ELSE IF outcome = "True"
             THEN [r EXCEPT !.pc = "returned", !.returned = "True",
                            !.outcomes = Recorded(@, outcome),
                            !.last = outcome, !.even = ~@]
           ELSE IF outcome = "False"
             THEN [r EXCEPT !.outcomes = Recorded(@, outcome),
                            !.last = outcome, !.even = ~@]
             ELSE [r EXCEPT !.pc = "sleep", !.outcomes = Recorded(@, outcome),
                            !.last = outcome, !.even = ~@]]
  /\ UNCHANGED legs

\* asyncio.sleep(retry_delay * (2**retries)) is over: retries += 1
ConnectWake ==
  /\ call.fn = "connect_mt5_with_retry"
  /\ call.result.pc = "sleep"
  /\ call' = [call EXCEPT
                !.result.slept = @ + call.args.retry_delay * Pow2(call.result.retries),
                !.result.retries = @ + 1,
                !.result.pc = "loop"]
  /\ UNCHANGED legs

InitConnect == HandlerIdle /\ TrackingInit /\ ProbeIdle

NextConnect ==
  \/ ConnectStart /\ UNCHANGED <<handler, tracking>>
  \/ \E initialized \in VenueAnswers : \E authorized \in VenueAnswers :
       \E escapes \in BOOLEAN :
         ConnectAttempt(initialized, authorized, escapes)
           /\ UNCHANGED <<handler, tracking>>
  \/ ConnectWake /\ UNCHANGED <<handler, tracking>>

\* the event loop runs the coroutine as long as it can take a step
SpecConnect == InitConnect /\ [][NextConnect]_vars /\ WF_vars(NextConnect)

\* ------------------------------------------------------------- properties
DrainTasks == {t \in TaskIds : tasks[t].kind = "drain"}
MonitorTasks == {t \in TaskIds : tasks[t].kind = "monitor"}

\* past the queue_processing guard and not yet through `finally`
DrainActive(t) ==
  tasks[t].kind = "drain" /\ tasks[t].pc \notin {"created", "returned", "done"}

\* inside process_queued_signals
Sweeping(t) ==
  tasks[t].kind = "monitor" /\ tasks[t].pc \in {"sweep", "item", "prep", "send", "sleep2"}

\* inside a run of the placement function
Executing(t) == tasks[t].pc \in {"prep", "send", "sleep2"}

IsPrefix(a, b) == Len(a) <= Len(b) /\ a = SubSeq(b, 1, Len(a))

\* C1: at most one drain loop is past its queue_processing guard at any time,
\* and a drain task that starts while another loop is active returns at the
\* guard without dequeuing anything.
C1_SingleFlightDrain ==
  /\ [](Cardinality({t \in TaskIds : DrainActive(t)}) <= 1)
  /\ [][\A t \in TaskIds :
          (/\ tasks[t].kind = "drain" /\ tasks[t].pc = "created"
           /\ tasks'[t].pc # "created"
           /\ \E u \in TaskIds : DrainActive(u))
          => (tasks'[t].pc = "returned" /\ order_queue' = order_queue)]_vars

\* C1 witness: a second drain task has returned at the guard while the first
\* loop is suspended in a retry pause.
C1_Witness ==
  \E t, u \in TaskIds :
    /\ tasks[t].kind = "drain" /\ tasks[t].pc = "returned"
    /\ tasks[u].kind = "drain" /\ tasks[u].pc = "sleep2"

\* C2 (as claimed): on the dispatch path and on the sweep path alike, the
\* legs placed for an intent never exceed the capacity the venue's counts
\* gave for its symbol when the run started.
C2_PlacedWithinCapacity ==
  \A t \in TaskIds :
    tasks[t].x.outcome \in {"placing", "returned"}
      => Len(tasks[t].x.trades_info) <= tasks[t].x.avail

\* C3 (as claimed): a call of execute_trade made while the venue-wide pending
\* count N is above 190 and the intent has more legs than 200 - N leaves the
\* execution queue as it was.
C3_CriticalRejects ==
  [][(/\ nextId' # nextId
      /\ venuePending > CriticalThreshold
      /\ order_queue' # order_queue)
     => Len(order_queue'[Len(order_queue')].tp) <= VenueCapacity - venuePending]_vars

\* C4: once execute_trade_internal has reached its capacity check (market
\* open, symbol and volume valid), with requested = len(takeProfits): if
\* available >= requested every take-profit is attempted; if
\* 0 < available < requested exactly the first `available` are attempted, in
\* listed order; if available <= 0 none is attempted and the intent is added
\* to the deferred queue with the no-capacity reason.
C4_AdmissionOutcome ==
  /\ [](\A t \in DrainTasks :
          LET x == tasks[t].x
              requested == Len(x.orig_tp)
              expected == IF x.avail >= requested THEN x.orig_tp
                          ELSE SubSeq(x.orig_tp, 1, x.avail)
          IN  x.decided =>
                IF x.avail <= 0
                  THEN x.outcome = "queued_nocap" /\ x.attempted = <<>>
                  ELSE /\ x.outcome \in {"placing", "returned"}
                       /\ IsPrefix(x.attempted, expected)
                       /\ (x.outcome = "returned" => x.attempted = expected))
  /\ [][\A t \in TaskIds :
          (tasks[t].kind = "drain" /\ tasks[t].x.outcome # "queued_nocap"
           /\ tasks'[t].x.outcome = "queued_nocap")
          => market_closed_signals' =
               Append(market_closed_signals,
                      QueuedSignal(Head(tasks[t].batch), "No capacity", now))]_vars

\* C4 witness: an intent of two take-profits dispatched with capacity for one
\* has returned after attempting the first take-profit only.
C4_Witness ==
  \E t \in DrainTasks :
    LET x == tasks[t].x
    IN  /\ x.decided /\ x.outcome = "returned"
        /\ 0 < x.avail /\ x.avail < Len(x.orig_tp)
        /\ x.attempted = SubSeq(x.orig_tp, 1, x.avail)

\* C5: when the market is closed for the symbol of the signal the drain loop
\* dispatches, the dispatch adds exactly one entry for it to the deferred
\* queue, makes no capacity check, builds no request and places no leg.
C5_ClosedMarketDefers ==
  [][\A t \in TaskIds :
       (/\ running = t /\ tasks[t].kind = "drain" /\ tasks[t].pc = "batch"
        /\ tasks[t].batch # <<>>
        /\ ~marketOpen[Head(tasks[t].batch).symbol])
       => /\ market_closed_signals' =
               Append(market_closed_signals,
                      QueuedSignal(Head(tasks[t].batch), "Market closed", now))
          /\ tasks'[t].pc = "batch"
          /\ ~tasks'[t].x.decided
          /\ tasks'[t].x.attempted = <<>>
          /\ tasks'[t].x.req = None
          /\ tasks'[t].x.trades_info = <<>>]_vars

\* C5 witness: a dispatch has deferred its signal because the market was
\* closed, and the entry is in the deferred queue.
C5_Witness ==
  \E t \in DrainTasks :
    /\ tasks[t].x.outcome = "queued_closed"
    /\ \E j \in 1..Len(market_closed_signals) :
         /\ market_closed_signals[j].signal = tasks[t].x.sig[1]
         /\ market_closed_signals[j].reason = "Market closed"

\* C6 (as claimed): when the sweep starts to execute an entry, the current
\* time does not exceed the entry's expires_at.
C6_NeverExecutedAfterExpiry ==
  [][\A t \in TaskIds :
       (tasks[t].kind = "monitor" /\ tasks[t].pc = "item" /\ tasks'[t].pc = "prep")
       => now <= tasks'[t].x.item[1].expires_at]_vars

\* C7: the sweep executes a deferred entry at most once, and once the
\* execution has returned, with or without success, the entry is no longer
\* in the in-memory deferred queue.
C7_AtMostOneAttempt ==
  \A id \in IntentIds :
    /\ execCount[id] <= 1
    /\ (/\ execCount[id] >= 1
        /\ ~\E t \in MonitorTasks :
              Executing(t) /\ tasks[t].x.item[1].signal.id = id)
       => ~\E j \in 1..Len(market_closed_signals) :
              market_closed_signals[j].signal.id = id

\* C7 witness: an execution by the sweep has returned without success and
\* its entry has been removed.
C7_Witness ==
  \E t \in MonitorTasks :
    LET x == tasks[t].x
    IN  /\ x.outcome = "returned" /\ ~x.success
        /\ execCount[x.item[1].signal.id] = 1
        /\ ~\E j \in 1..Len(market_closed_signals) :
               market_closed_signals[j].signal.id = x.item[1].signal.id

\* C8 (as claimed): once the monitor has loaded the file, whenever no sweep is
\* in progress the file holds the in-memory deferred queue.
C8_FileMatchesQueue ==
  (/\ market_monitor_running
   /\ running = 0
   /\ ~\E t \in TaskIds : Sweeping(t))
  => queue_file = market_closed_signals

\* C9 (as claimed): an entry deferred for no capacity is not attempted by the
\* sweep while the capacity of its symbol is <= 0, and the sweep attempts no
\* more of its take-profits than the capacity allows.
C9_SweepReadmits ==
  \A t \in MonitorTasks :
    LET x == tasks[t].x
    IN  (x.outcome \in {"placing", "returned"} /\ x.item[1].reason = "No capacity")
          => /\ (x.avail <= 0 => x.attempted = <<>>)
             /\ (x.avail > 0 => Len(x.attempted) <= x.avail)

\* C10: at most one call of start_market_monitor is past its guard, and at
\* most one invocation of process_queued_signals is in progress.
C10_SingleFlightSweep ==
  /\ Cardinality({t \in MonitorTasks : tasks[t].pc \notin {"created", "returned"}}) <= 1
  /\ Cardinality({t \in TaskIds : Sweeping(t)}) <= 1

\* C10 witness: a second call of start_market_monitor has returned at the
\* guard while the sweep of the first is suspended in a retry pause.
C10_Witness ==
  \E t, u \in MonitorTasks :
    /\ tasks[t].pc = "returned"
    /\ tasks[u].pc = "sleep2"

\* inside the loop over the take-profits
Placing(t) == tasks[t].x.outcome = "placing" /\ Executing(t)

\* C11: for each leg the retry loop sends at most 3 requests (a request is
\* sent only after fewer than 3 failures for the leg); after a None result
\* and after a result that is not DONE, with attempts left, the next thing
\* the loop does is send the same request again; a DONE result ends the loop
\* for the leg, which is recorded in trades_info; after the third failure the
\* leg is given up and nothing is recorded for it.
C11_RetryLoop ==
  /\ [](\A t \in TaskIds :
          /\ tasks[t].pc = "send" => tasks[t].x.attempt < MaxRetries
          /\ tasks[t].pc = "sleep2" =>
               /\ tasks[t].x.attempt \in 1..MaxRetries
               /\ tasks[t].x.result \in {"None", "REJECTED"})
  /\ [][\A t \in TaskIds :
          LET x == tasks[t].x
              y == tasks'[t].x
          IN  /\ (tasks[t].pc = "send" /\ tasks'[t].pc # "send" /\ y.result = "DONE")
                 => /\ tasks'[t].pc = "prep" /\ y.i = x.i + 1
                    /\ y.trades_info = Append(x.trades_info, x.sig[1].tp[x.i])
              /\ (tasks[t].pc = "send" /\ tasks'[t].pc # "send"
                  /\ y.result \in {"None", "REJECTED"})
                 => /\ tasks'[t].pc = "sleep2" /\ y.attempt = x.attempt + 1
                    /\ y.i = x.i /\ y.trades_info = x.trades_info
              /\ (tasks[t].pc = "sleep2" /\ tasks'[t].pc # "sleep2"
                  /\ x.attempt < MaxRetries)
                 => /\ tasks'[t].pc = "send" /\ y.i = x.i /\ y.req = x.req
                    /\ y.attempt = x.attempt
              /\ (tasks[t].pc = "sleep2" /\ tasks'[t].pc # "sleep2"
                  /\ x.attempt = MaxRetries)
                 => /\ tasks'[t].pc = "prep" /\ y.i = x.i + 1
                    /\ y.trades_info = x.trades_info]_vars

\* C11 witness: a leg has been given up after three failed requests, none of
\* its requests recorded as placed.
C11_Witness ==
  \E t \in TaskIds :
    /\ tasks[t].pc = "prep" /\ tasks[t].x.outcome = "placing"
    /\ tasks[t].x.attempt = MaxRetries
    /\ tasks[t].x.i = 2 /\ tasks[t].x.trades_info = <<>>

\* C12: order_send is only ever called with a request that
\* prepare_order_request returned; when it returned None the loop goes
\* straight to the next take-profit, no request having been sent for the leg
\* and nothing being recorded for it, and no leg is prepared a second time.
C12_InvalidRequestNotSent ==
  /\ [](\A t \in TaskIds :
          /\ tasks[t].pc \in {"send", "sleep2"} => tasks[t].x.req # None
          /\ Placing(t) =>
               /\ IsPrefix(tasks[t].x.attempted, tasks[t].x.sig[1].tp)
               /\ Len(tasks[t].x.attempted) =
                    IF tasks[t].pc = "prep" THEN tasks[t].x.i - 1 ELSE tasks[t].x.i)
  /\ [][\A t \in TaskIds :
          LET x == tasks[t].x
              y == tasks'[t].x
          IN  (/\ tasks[t].pc = "prep" /\ x.outcome = "placing"
               /\ y.attempted # x.attempted /\ y.req = None)
              => /\ tasks'[t].pc = "prep" /\ y.i = x.i + 1
                 /\ y.attempt = 0 /\ y.result = ""
                 /\ y.trades_info = x.trades_info]_vars

\* C12 witness: the first take-profit of a signal failed validation: the loop
\* is at the second take-profit with no request sent and nothing recorded.
C12_Witness ==
  \E t \in TaskIds :
    /\ tasks[t].pc = "prep" /\ tasks[t].x.outcome = "placing"
    /\ tasks[t].x.i = 2 /\ tasks[t].x.attempted = <<tasks[t].x.sig[1].tp[1]>>
    /\ tasks[t].x.attempt = 0 /\ tasks[t].x.result = ""
    /\ tasks[t].x.trades_info = <<>>

\* C13: in execute_trade_internal a leg that fails validation, uses up its
\* attempts or raises does not end the loop: take-profits are tried one after
\* the other with none skipped, a run that returns from the loop has tried
\* them all, and success is reported iff some leg got a DONE result.
C13_FailedLegDoesNotStopIntent ==
  \A t \in DrainTasks :
    LET x == tasks[t].x
    IN  /\ (x.outcome = "placing" /\ tasks[t].pc = "prep")
           => x.attempted = SubSeq(x.sig[1].tp, 1, x.i - 1)
        /\ x.outcome = "returned" => x.attempted = x.sig[1].tp
        /\ x.outcome \in {"placing", "returned"}
           => (x.success <=> x.trades_info # <<>>)

\* C13 witness: a run over two take-profits has returned success with the
\* first leg failed and the second placed.
C13_Witness ==
  \E t \in DrainTasks :
    LET x == tasks[t].x
    IN  /\ x.outcome = "returned" /\ x.success
        /\ Len(x.sig[1].tp) = 2
        /\ x.trades_info = <<x.sig[1].tp[2]>>

\* the dispatcher has finished intent `id` with at least one leg placed
PlacedBy(id) ==
  \E t \in DrainTasks :
    /\ tasks[t].x.outcome = "returned"
    /\ tasks[t].x.sig[1].id = id
    /\ tasks[t].x.trades_info # <<>>

\* a leg of intent `id` is in TradeManager.active_trades
Registered(id) ==
  \E s \in TMSymbols : \E j \in 1..Len(Tracked(s)) : Tracked(s)[j].group = id

\* C14 (as claimed): once the dispatcher has finished an intent with legs
\* placed, legs of that intent are eventually in the trade manager's
\* active_trades.
C14_PlacedLegsRegistered ==
  \A id \in IntentIds : PlacedBy(id) ~> Registered(id)

\* what the _check_trades that has just run did
CycleLog == IF last_cycle = None THEN {} ELSE last_cycle[1].log
CycleClosed == IF last_cycle = None THEN {} ELSE last_cycle[1].closed

TicketsOf(g) == {g.legs[j].ticket : j \in 1..Len(g.legs)}

\* tickets of group g in active_trades
TrackedOf(g) ==
  {Tracked(g.symbol)[j].ticket :
     j \in {n \in 1..Len(Tracked(g.symbol)) : Tracked(g.symbol)[n].group = g.id}}

\* C15 (as claimed): when a reconciliation cycle detects the first closed
\* leg of a tracked group of at least 2 legs, it calls for a stop-loss
\* modify, to the entry recorded with the closed leg, on every leg of the
\* group that is still tracked, whichever leg it is that closed.
C15_BreakevenOnAnyFirstClose ==
  \A g \in Groups :
    (/\ last_cycle # None
     /\ Len(g.legs) >= 2
     /\ CycleClosed \cap TicketsOf(g) # {}
     /\ (CycleClosed \cap TicketsOf(g)) \cup TrackedOf(g) = TicketsOf(g))
    => \A k \in TrackedOf(g) :
         \E r \in CycleLog : r.ticket = k /\ r.closer \in TicketsOf(g)

\* C16 (as claimed): once modify requests have been sent for a group because
\* one of its legs closed, no later reconciliation cycle sends a modify
\* request to a leg of that group because another of its legs closed.
C16_PushOncePerGroup ==
  [][\A r \in CycleLog' :
       (/\ last_cycle' # last_cycle
        /\ r.outcome # "invalid"
        /\ GroupOf(r.closer).id = GroupOf(r.ticket).id)
       => GroupOf(r.ticket).id \notin pushed]_vars

\* C17 (as claimed): every modify request a reconciliation cycle sends goes
\* to a leg of the group whose leg closed, with that group's entry price.
C17_OwnGroupOnly ==
  \A r \in CycleLog :
    r.outcome # "invalid" => GroupOf(r.closer).id = GroupOf(r.ticket).id

C19_NoRetryAfterRejection ==
  /\ [](\A r \in CycleLog :
          r.outcome # "DONE" =>
            \A j \in 1..Len(Tracked(GroupOf(r.ticket).symbol)) :
              Tracked(GroupOf(r.ticket).symbol)[j].ticket = r.ticket
                => Tracked(GroupOf(r.ticket).symbol)[j].sl = r.old_sl)
  /\ [][\A r \in CycleLog' :
          (last_cycle' # last_cycle /\ r.outcome # "invalid" /\ r.ticket \in rejected)
          => CycleClosed' \cap TicketsOf(GroupOf(r.ticket)) # {}]_vars

\* C20: after a reconciliation cycle, for every symbol for which the venue
\* returned its positions, every tracked leg has its ticket among the
\* venue's open positions, and active_trades holds no empty list.
C20_TrackedAreOpen ==
  last_cycle # None =>
    \A s \in TMSymbols :
      last_cycle[1].returned[s] =>
        /\ \A j \in 1..Len(Tracked(s)) : Tracked(s)[j].ticket \in positions
        /\ active_trades[s] # Some(<<>>)

\* C20 witness: a cycle has removed a closed leg and kept an open one of the
\* same symbol, and has deleted the entry of a symbol whose last leg closed.
C20_Witness ==
  /\ last_cycle # None
  /\ \E s \in TMSymbols :
       /\ last_cycle[1].returned[s] /\ active_trades[s] = None
       /\ \E k \in CycleClosed : GroupOf(k).symbol = s
  /\ \E s \in TMSymbols :
       /\ last_cycle[1].returned[s] /\ Tracked(s) # <<>>
       /\ \E k \in CycleClosed : GroupOf(k).symbol = s

\* ---------------------------------------------------- the tag on placed legs
\* C21: at every admission check of a symbol, each leg the pipeline has
\* placed on that symbol and that is still open is counted as system-owned
C21_PlacedLegsCounted ==
  call.fn = "check_symbol_capacity_advanced"
    => call.counts.system = Cardinality(OrdersOf(call.args[1]))

\* C22: two placed legs carry the same group identifier exactly when they
\* were derived from the same intent
C22_GroupTagIdentifiesIntent ==
  \A a, b \in 1..Len(legs) :
    (/\ legs[a].group_id = legs[b].group_id
     /\ legs[a].request.group = legs[b].request.group) <=> (legs[a].intent = legs[b].intent)

\* ------------------------------------------------------ order of the legs
\* C23: within one order group the requests are sent in ascending
\* take-profit order: when a request is about to be sent, every leg of the
\* intent already placed has a lower take-profit
C23_AscendingDispatch ==
  \A t \in TaskIds :
    tasks[t].pc = "send"
      => \A k \in 1..Len(tasks[t].x.trades_info) :
           tasks[t].x.trades_info[k] < tasks[t].x.sig[1].tp[tasks[t].x.i]

\* ------------------------------------------------------------ market hours
MarketCall == call.fn = "is_market_open" /\ ~call.args.raised

\* Friday 22:00 UTC up to Sunday 22:00 UTC
InWeekend(weekday, current_time) ==
  \/ weekday = 4 /\ current_time >= At(22, 0)
  \/ weekday = 5
  \/ weekday = 6 /\ current_time < At(22, 0)

\* symbols with no trading hours of their own in is_market_open
AlwaysTraded(symbol) ==
  ~(IsUSIndex(symbol) \/ IsJapanIndex(symbol) \/ IsGermanIndex(symbol))

\* C24: for every symbol is_market_open returns closed at every instant of
\* the weekend window, and on Sunday from 22:00 the weekend rule closes nothing
C24_WeekendClosed ==
  MarketCall =>
    /\ InWeekend(call.args.weekday, call.args.current_time) => call.result = FALSE
    /\ (/\ call.args.weekday = 6
        /\ call.args.current_time >= At(22, 0)
        /\ AlwaysTraded(call.args.symbol)) => call.result = TRUE

\* the fixed UTC windows of the regional indices
InRegionalWindow(symbol, current_time) ==
  IF IsJapanIndex(symbol)
    THEN \/ (At(0, 0) <= current_time /\ current_time <= At(7, 0))
         \/ (At(8, 30) <= current_time /\ current_time <= At(15, 0))
    ELSE At(7, 0) <= current_time /\ current_time <= At(21, 0)

\* C25: for JP225/NIKKEI and GER40/DAX is_market_open returns open only
\* inside their windows, on every day of the week
C25_RegionalWindows ==
  (/\ MarketCall
   /\ IsJapanIndex(call.args.symbol) \/ IsGermanIndex(call.args.symbol)
   /\ call.result = TRUE)
    => InRegionalWindow(call.args.symbol, call.args.current_time)

\* C26: for US30/US100 on a Sunday is_market_open returns closed before
\* 23:00 UTC and open from 23:00 UTC
C26_USIndexSundayReopen ==
  (MarketCall /\ IsUSIndex(call.args.symbol) /\ call.args.weekday = 6)
    => (call.result <=> call.args.current_time >= At(23, 0))

\* a symbol of no instrument class is_market_open knows
UnknownSymbol(symbol) ==
  /\ symbol \notin ForexPairs
  /\ AlwaysTraded(symbol)
  /\ ~IsMetalOrOil(symbol)

\* C27: for a symbol of no known class is_market_open returns open exactly
\* outside the weekend window; when the check raises, the result is open
C27_UnknownSymbolDefault ==
  /\ (MarketCall /\ UnknownSymbol(call.args.symbol))
       => (call.result <=> ~InWeekend(call.args.weekday, call.args.current_time))
  /\ (call.fn = "is_market_open" /\ call.args.raised) => call.result = TRUE

\* ------------------------------------------------- venue-wide pending count
\* C28: the status is CRITICAL iff N > 190, WARNING iff 170 < N <= 190,
\* ATTENTION iff 150 < N <= 170 and OK iff N <= 150, and the result has the
\* four components (count, warning flag, status, top symbols) on every path
C28_PendingStatusShape ==
  call.fn = "check_pending_orders_status" =>
    /\ Len(call.result) = 4
    /\ (call.args.orders # None /\ ~call.args.raised) =>
         LET N == CountOrders(call.args.orders[1])
             status == call.result[3]
         IN  /\ call.result[1] = N
             /\ status = "CRITICAL" <=> N > 190
             /\ status = "WARNING" <=> (170 < N /\ N <= 190)
             /\ status = "ATTENTION" <=> (150 < N /\ N <= 170)
             /\ status = "OK" <=> N <= 150

\* ------------------------------------------------------ stops of a request
RequestBuilt == call.fn = "prepare_order_request" /\ call.result # None

\* trade_stops_level * point of the call's instrument
MinStopDistance == call.args.symbol_info[1].trade_stops_level * PointUnits

\* C29: a request is built for a leg only if the leg's stop-loss and
\* take-profit are on the correct side of the order price (BUY: sl < price <
\* tp; SELL: tp < price < sl) and each is at least trade_stops_level * point
\* away from it; a leg that fails this gets no request
C29_StopsValidatedBeforeBuild ==
  RequestBuilt =>
    LET price == call.result[1].price
        sl == call.args.signal.sl
        tp == call.args.tp
    IN  /\ IF HasBuy(call.args.signal.direction)
             THEN sl < price /\ price < tp
             ELSE tp < price /\ price < sl
        /\ Abs(price - sl) >= MinStopDistance
        /\ Abs(price - tp) >= MinStopDistance

\* a request has been built for a SELL leg whose stops are exactly at the
\* minimum distance of an instrument that has one
C29_Witness ==
  /\ RequestBuilt
  /\ ~HasBuy(call.args.signal.direction)
  /\ MinStopDistance > 0
  /\ Abs(call.result[1].price - call.args.tp) = MinStopDistance

\* ------------------------------------------------------- parsing failures
\* the words of the call's message, none for a message with no text
ParsedWords ==
  IF call.args.message_text = None THEN <<>> ELSE Words(call.args.message_text[1])

\* a number follows the label at position k, directly or after an "@"
Valued(k) == ValueAfter(ParsedWords, k) # None

HasSymbolToken ==
  /\ call.args.message_text # None
  /\ \E w \in DOMAIN SymbolRun :
       \E k \in 1..Len(call.args.message_text[1][1]) :
         call.args.message_text[1][1][k] = w

HasOrderMarker ==
  \E k \in 1..Len(ParsedWords) :
    /\ ParsedWords[k] \in DOMAIN Upper
    /\ \/ WordAt(ParsedWords, k + 1) \in {"NOW", "now"}
       \/ /\ WordAt(ParsedWords, k + 1) \in {"limit", "LIMIT"}
          /\ WordAt(ParsedWords, k + 2) \in {"from", "FROM"}
          /\ WordAt(ParsedWords, k + 3) \in DOMAIN NumberValue

HasTakeProfitValue ==
  \E k \in 1..Len(ParsedWords) : ParsedWords[k] \in DOMAIN TpLabels /\ Valued(k)

HasStopLossValue ==
  \E k \in 1..Len(ParsedWords) : ParsedWords[k] \in SlLabels /\ Valued(k)

\* C30: parse_signal returns no intents exactly when the message has no
\* symbol token on its first line, or neither an immediate nor a limit
\* marker, or no take-profit value, or no stop-loss value; otherwise it
\* returns at least one intent
C30_ParseFailureConditions ==
  call.fn = "parse_signal" =>
    /\ call.result = None
         <=> ~(HasSymbolToken /\ HasOrderMarker /\ HasTakeProfitValue /\ HasStopLossValue)
    /\ call.result # None => Len(call.result[1]) >= 1

\* ------------------------------------------------------- parsed intents
ParseSucceeded == call.fn = "parse_signal" /\ call.result # None

\* the immediate markers of the message, in order: BUY/SELL followed by NOW
ImmediateMarkers ==
  SelectSeq(Positions(ParsedWords),
            LAMBDA k : /\ ParsedWords[k] \in DOMAIN Upper
                       /\ WordAt(ParsedWords, k + 1) \in {"NOW", "now"})

\* the limit markers of the message, in order: BUY/SELL limit from <price>
LimitMarkers ==
  SelectSeq(Positions(ParsedWords),
            LAMBDA k : /\ ParsedWords[k] \in DOMAIN Upper
                       /\ WordAt(ParsedWords, k + 1) \in {"limit", "LIMIT"}
                       /\ WordAt(ParsedWords, k + 2) \in {"from", "FROM"}
                       /\ WordAt(ParsedWords, k + 3) \in DOMAIN NumberValue)

\* the take-profit values of the message, in order of appearance
TakeProfitValues ==
  LET at == SelectSeq(Positions(ParsedWords),
                      LAMBDA k : ParsedWords[k] \in DOMAIN TpLabels /\ Valued(k))
  IN  [h \in 1..Len(at) |-> ValueAfter(ParsedWords, at[h])[1]]

\* the first stop-loss value of the message
StopLossValue ==
  LET at == SelectSeq(Positions(ParsedWords),
                      LAMBDA k : ParsedWords[k] \in SlLabels /\ Valued(k))
  IN  ValueAfter(ParsedWords, at[1])[1]

\* C31: on success parse_signal returns one intent per immediate marker, then
\* one per limit entry; every intent has the same symbol, the stop-loss
\* matched in the message and the message's take-profit values in order of
\* appearance, and none has a group id
C31_OneIntentPerOrder ==
  ParseSucceeded =>
    LET intents == call.result[1]
        n == Len(ImmediateMarkers)
    IN  /\ Len(intents) = n + Len(LimitMarkers)
        /\ \A h \in 1..Len(intents) :
             /\ intents[h].is_limit <=> h > n
             /\ h <= n => intents[h].direction = Upper[ParsedWords[ImmediateMarkers[h]]]
             /\ h > n => /\ HasBuy(intents[h].direction)
                              <=> Upper[ParsedWords[LimitMarkers[h - n]]] = "BUY"
                         /\ intents[h].entry
                              = Some(NumberValue[ParsedWords[LimitMarkers[h - n] + 3]])
             /\ intents[h].symbol = intents[1].symbol
             /\ intents[h].sl = StopLossValue
             /\ intents[h].tp = TakeProfitValues
             /\ "group_id" \notin DOMAIN intents[h]

\* ------------------------------------------------- the execution queue
\* the signals waiting in a drain loop's batch or, behind them, in the
\* execution queue
Waiting == Words([t \in TaskIds |-> tasks[t].batch]) \o order_queue

\* the drain loop holding signal `id` as the one it has passed to
\* execute_trade_internal
Dispatching(t, id) ==
  tasks[t].kind = "drain" /\ tasks[t].x.sig # None /\ tasks[t].x.sig[1].id = id

\* task t passes the head of its batch to execute_trade_internal in this step
Dispatch(t) ==
  /\ t \in TaskIds
  /\ tasks[t].kind = "drain" /\ tasks[t].pc = "batch" /\ tasks[t].batch # <<>>
  /\ tasks'[t].batch = Tail(tasks[t].batch)

\* C32: every signal appended to the execution queue is eventually passed to
\* execute_trade_internal, and exactly once: a signal enters the queue once,
\* under a fresh id; it waits in one place only; the loop passes on the head
\* of its batch and with that the signal stops waiting
C32_DispatchedExactlyOnce ==
  /\ [](\A a, b \in 1..Len(Waiting) :
          /\ Waiting[a].id < nextId
          /\ Waiting[a].id = Waiting[b].id => a = b)
  /\ [][/\ \A a \in 1..Len(Waiting') :
             \/ \E b \in 1..Len(Waiting) : Waiting[b] = Waiting'[a]
             \/ Waiting'[a].id = nextId /\ nextId' = nextId + 1
        /\ \A t \in TaskIds :
             /\ Dispatch(t) =>
                  /\ tasks'[t].x.sig # None
                  /\ tasks'[t].x.sig[1].id = Head(tasks[t].batch).id
                  /\ tasks'[t].x.orig_tp = Head(tasks[t].batch).tp
                  /\ Len(Waiting') = Len(Waiting) - 1
             /\ (\E id \in 1..MaxSubmits : ~Dispatching(t, id) /\ Dispatching(t, id)')
                  => Dispatch(t)]_vars
  /\ \A id \in 1..MaxSubmits :
       (\E a \in 1..Len(order_queue) : order_queue[a].id = id)
         ~> (\E t \in TaskIds : Dispatching(t, id))

\* C32 witness: the second signal was appended while the one drain loop was
\* suspended in a retry pause, and that loop has now passed it on
C32_Witness ==
  /\ Len(tasks) = 2
  /\ Dispatching(2, 2)
  /\ tasks[2].x.outcome = "placing"

\* -------------------------------------------------- the processing flag
\* C33: queue_processing is true exactly while a drain loop is active; a
\* drain call that returns at the guard leaves the flag as it is
C33_FlagTracksActiveLoop ==
  /\ [](queue_processing <=> \E t \in TaskIds : DrainActive(t))
  /\ [][\A t \in TaskIds :
          (tasks[t].pc = "created" /\ tasks'[t].pc = "returned")
            => queue_processing' = queue_processing]_vars

\* C33 witness: a drain call has returned at the guard while another loop is
\* suspended, and the flag is still set
C33_Witness ==
  /\ queue_processing
  /\ running = 0
  /\ \E t, u \in DrainTasks : tasks[t].pc = "returned" /\ DrainActive(u)

\* ------------------------------------------------------ order of dispatch
\* ids are given in the order of the calls of execute_trade
Increasing(signals) ==
  \A a, b \in 1..Len(signals) : a < b => signals[a].id < signals[b].id

\* C34: the drain loop passes the signals to execute_trade_internal in the
\* order they were submitted, one at a time: the signals still waiting are in
\* submission order behind the one being executed, and a signal is passed on
\* only when no execution by a drain loop is in progress
C34_FifoDispatch ==
  /\ [](/\ Increasing(Waiting)
        /\ \A t \in DrainTasks :
             (tasks[t].x.sig # None /\ tasks[t].x.outcome # "")
               => \A a \in 1..Len(Waiting) : tasks[t].x.sig[1].id < Waiting[a].id)
  /\ [][\A t \in TaskIds :
          Dispatch(t) => /\ \A u \in DrainTasks : ~Executing(u)
                         /\ \A a \in 1..Len(Waiting') :
                              Head(tasks[t].batch).id < Waiting'[a].id]_vars

\* C34 witness: the first of two signals taken in one batch is in its retry
\* pause while the second waits in the batch
C34_Witness ==
  \E t \in DrainTasks :
    /\ tasks[t].pc = "sleep2"
    /\ tasks[t].x.sig[1].id = 1
    /\ Len(tasks[t].batch) = 1
    /\ tasks[t].batch[1].id = 2

\* --------------------------------------------------- refusals at the entry
\* the call of execute_trade made in this step, if any
EntryReturns == nextId' # nextId /\ call'.fn = "execute_trade"

\* the signal of that call lacks a required key, or the venue does not know
\* its symbol, or trading is disabled for it
EntryRefusal ==
  LET a == call'.args
      symbol_info == IF a.info # None THEN a.info ELSE a.mapped
  IN  \/ \E f \in {"symbol", "direction", "sl", "tp", "tp_count"} : f \notin DOMAIN a.signal
      \/ symbol_info = None
      \/ ~symbol_info[1].trade_mode_full

\* C35: execute_trade returns False, with the execution queue unchanged and
\* no drain task created, when the signal lacks a required field, its symbol
\* is unknown or trading is disabled for it; it returns True exactly when
\* it has appended the signal to the execution queue
C35_RefusedAtEntry ==
  [][EntryReturns =>
       /\ EntryRefusal => /\ call'.result = FALSE
                          /\ order_queue' = order_queue
                          /\ tasks' = tasks
       /\ call'.result = TRUE <=> order_queue' = Append(order_queue, call'.args.signal)
       /\ call'.result = FALSE => order_queue' = order_queue]_vars

\* C35 witness: a call for a known symbol with trading disabled has returned
\* False while a drain loop is paused with a signal in the queue
C35_Witness ==
  /\ call.fn = "execute_trade"
  /\ ~call.result
  /\ ~call.args.raised
  /\ "symbol" \in DOMAIN call.args.signal
  /\ call.args.info # None
  /\ ~call.args.info[1].trade_mode_full
  /\ queue_processing
  /\ Len(order_queue) = 1

\* the entries of a list
Entries(list) == {list[k] : k \in 1..Len(list)}

\* an entry of the deferred queue that the sweep of task t did not copy
Newcomer(t, e) ==
  /\ Sweeping(t)
  /\ tasks[t].pc # "sweep"
  /\ e \in Entries(market_closed_signals)
  /\ e \notin Entries(tasks[t].snap)

\* C36: an entry that the dispatcher adds to the deferred queue while a sweep
\* is suspended in an execution is added only while the sweep is suspended, is
\* never the entry that sweep executes, stays in the queue at every step of
\* that sweep including its last, and is in the copy the next sweep takes
C36_NewcomerSurvivesSweep ==
  /\ [](\A t \in MonitorTasks : \A e \in Entries(market_closed_signals) :
          Newcomer(t, e) /\ Executing(t) => tasks[t].x.item # Some(e))
  /\ [][\A t \in MonitorTasks :
          /\ \A e \in Entries(market_closed_signals) :
               Newcomer(t, e) => e \in Entries(market_closed_signals')
          /\ (Sweeping(t) /\ tasks[t].pc # "sweep" /\ running' \in DrainTasks
                /\ market_closed_signals' # market_closed_signals)
               => /\ tasks[t].pc = "sleep2"
                  /\ tasks'[t].snap = tasks[t].snap
                  /\ IsPrefix(market_closed_signals, market_closed_signals')
          /\ (tasks[t].pc = "sweep" /\ tasks'[t].pc = "item")
               => tasks'[t].snap = market_closed_signals]_vars

\* C36 witness: the sweep is suspended in its execution of the backlog entry
\* and the deferred queue holds an entry of the dispatcher that its copy
\* does not
C36_Witness ==
  \E t \in MonitorTasks :
    /\ tasks[t].pc = "sleep2" /\ running # t
    /\ tasks[t].x.item = Some(FileEntryA)
    /\ \E e \in Entries(market_closed_signals) : Newcomer(t, e) /\ e.signal.id = 1

\* the take-profits a signal of the message holds
TakeProfitsOf(k) == call.result.lists[call.result.signals[k].tp]

\* the last step was a partial accept of the k-th signal
PartialAccept(k) ==
  /\ call.fn = "execute_trade_internal"
  /\ call.args.k = k
  /\ call.result.outcome = "placing"
  /\ Len(TakeProfitsOf(k)) < call.result.signals[k].tp_count

\* C37: whichever signals of a message have been executed, with or without
\* a cap of their take-profits, every signal not yet executed still holds
\* the whole take-profit sequence extracted from the message, and its other
\* fields are the parsed ones
C37_SiblingsKeepTakeProfits ==
  call.fn = "execute_trade_internal" =>
    LET parsed == parse_signal(call.args.message_text)[1]
    IN  \A j \in 1..Len(call.result.signals) :
          j \notin call.result.executed
            => /\ TakeProfitsOf(j) = parsed[j].tp
               /\ [call.result.signals[j] EXCEPT !.tp = parsed[j].tp] = parsed[j]

\* C37 witness: a partial accept has capped one signal of a message of two
\* signals and the other has not been executed
C37_Witness ==
  /\ PartialAccept(1)
  /\ Len(call.result.signals) = 2
  /\ call.result.executed = {1}
  /\ Len(TakeProfitsOf(1)) = 1
  /\ Len(TakeProfitsOf(2)) = 2

\* C38: when execute_trade_internal reaches its placement loop, with or
\* without a partial accept before it, the signal's tp_count (by which the
\* volume of each leg was divided) is the number of its take-profits, which
\* is the number of legs the loop places
C38_CountMatchesLegs ==
  (call.fn = "execute_trade_internal" /\ call.result.outcome = "placing")
    => call.result.signals[call.args.k].tp_count = Len(TakeProfitsOf(call.args.k))

\* C38 on the executions without a partial accept
CountMatchesUncappedLegs ==
  (call.fn = "execute_trade_internal" /\ call.result.outcome = "placing"
     /\ check_symbol_capacity_advanced(call.result.signals[call.args.k].symbol,
                                       call.result.signals[call.args.k].tp_count,
                                       call.args.counts)[1])
    => call.result.signals[call.args.k].tp_count = Len(TakeProfitsOf(call.args.k))

\* the attempts of the call that did not connect
FailedAttempts == {n \in 1..Len(call.result.outcomes) : call.result.outcomes[n] # "True"}

Connecting == call.fn = "connect_mt5_with_retry"

ConnectReturned == Connecting /\ call.result.returned # "none"

\* C39: a call of connect_mt5_with_retry returns; it returns True exactly
\* when an attempt has connected, which is then its last attempt, and it
\* never makes more than max_retries attempts that fail, by a False or by an
\* exception
C39_ConnectTerminates ==
  /\ [](Connecting =>
          /\ Cardinality(FailedAttempts) <= max_retries
          /\ call.result.returned = "True" <=> call.result.last = "True"
          /\ call.result.returned = "False"
               => Cardinality(FailedAttempts) = max_retries)
  /\ (Connecting ~> ConnectReturned)

\* C39 on the calls whose attempts fail by raising only
RaisingAttemptsBounded ==
  (Connecting /\ \A n \in 1..Len(call.result.outcomes) : call.result.outcomes[n] # "False")
    => /\ Cardinality(FailedAttempts) <= max_retries
       /\ Cardinality(FailedAttempts) = call.result.retries
            + (IF call.result.pc = "sleep" THEN 1 ELSE 0)
       /\ call.result.returned = "False" => Cardinality(FailedAttempts) = max_retries

====
